---------------------------- MODULE Spec2Model ----------------------------
(***************************************************************************)
(* Plank detection: the frame classifier (lib/poseDetection) and the       *)
(* stability gate kept by the usePoseDetection hook.                       *)
(*                                                                         *)
(* Units.  Landmark coordinates are integers counted in sixteenths of the  *)
(* normalised image (8 = 0.5).  Sixteenths are exact in binary floating    *)
(* point, so sums, differences and halves of coordinates are exact in the  *)
(* program too, and no coordinate expression of the classifier can fall    *)
(* within rounding distance of one of its decimal thresholds (0.05, 0.10,  *)
(* 0.15, 0.3, 0.8): the integer comparisons below decide exactly as the    *)
(* double comparisons of the source.  Visibility is counted in hundredths. *)
(* Time is counted in milliseconds.                                        *)
(***************************************************************************)
EXTENDS Integers, Sequences, FiniteSets, TLC

(***************************************************************************)
(* Bounds of the model.                                                    *)
(***************************************************************************)
\* largest threshold a caller supplies explicitly
MaxThreshold == 2
\* the frame counters are not advanced past this value
MaxCount == 12
\* in the recorder component the frame counters are not advanced past this value
MaxFrames == 31
\* the seconds of one recording that are followed
MaxSeconds == 3
\* a new recording is not begun (Start, Record Another) while this many
\* stops of earlier recordings are pending
MaxCarriedStops == 1

(***************************************************************************)
(* Program constants.                                                      *)
(***************************************************************************)
DefaultStabilityFrames == 5
DefaultGracePeriodFrames == 10
ThrottleMs == 66
PassThreshold == 55
MaxViolations == 3
DefaultMinVisibility == 30
\* the targetDuration PlankTimer passes to the component, in seconds
TargetDuration == 2

POSE_LANDMARKS ==
  [NOSE |-> 0,
   LEFT_SHOULDER |-> 11, RIGHT_SHOULDER |-> 12,
   LEFT_ELBOW |-> 13, RIGHT_ELBOW |-> 14,
   LEFT_WRIST |-> 15, RIGHT_WRIST |-> 16,
   LEFT_HIP |-> 23, RIGHT_HIP |-> 24,
   LEFT_KNEE |-> 25, RIGHT_KNEE |-> 26,
   LEFT_ANKLE |-> 27, RIGHT_ANKLE |-> 28]

\* the slots the classifier dereferences (the wrists are read into locals
\* that are never used)
Slots == {0, 11, 12, 13, 14, 23, 24, 25, 26, 27, 28}

\* an array slot that holds no landmark (index past the end, or a hole)
Missing == [undefined |-> TRUE]

Abs(n) == IF n < 0 THEN -n ELSE n
Max(a, b) == IF a >= b THEN a ELSE b

\* num/den > t/100 and num/den < t/100, for den > 0
GreaterThan(num, den, t) == 100 * num > t * den
LessThan(num, den, t) == 100 * num < t * den

(***************************************************************************)
(* Feedback strings.                                                       *)
(***************************************************************************)
MsgNoPerson == "No person detected. Position yourself in frame."
MsgCannotSeeEnough == "Cannot see enough body parts. Move back to show full body."
MsgLevelBad == "Keep your body straight and level"
MsgLevelMild == "Body alignment could be better"
MsgHead == "Lift your head - look at the camera"
MsgArms == "Extend your arms toward the camera"
MsgElbows == "Keep elbows level"
MsgShoulders == "Position camera to see both shoulders"
MsgLegs == "Straighten your legs"
MsgTooHigh == "Move camera higher or position yourself lower in frame"
MsgTooLow == "Move camera lower or position yourself higher in frame"
MsgSymmetry == "Balance your weight evenly on both sides"
MsgPerfect == "Perfect plank form!"
MsgGood == "Good plank position - keep it up!"
MsgDetected == "Plank detected - maintain form"

Affirmations == {MsgPerfect, MsgGood, MsgDetected}

\* the strings pushed by the scoring checks
FormCorrections ==
  {MsgLevelBad, MsgLevelMild, MsgHead, MsgArms, MsgElbows, MsgShoulders,
   MsgLegs, MsgTooHigh, MsgTooLow, MsgSymmetry}

\* `Cannot see: ${missingParts.join(', ')}. Move back to show full body.`
RECURSIVE Join(_)
Join(parts) ==
  IF Len(parts) = 0 THEN ""
  ELSE IF Len(parts) = 1 THEN parts[1]
  ELSE parts[1] \o ", " \o Join(Tail(parts))

MsgCannotSee(parts) ==
  "Cannot see: " \o Join(parts) \o ". Move back to show full body."


(***************************************************************************)
(* lib/poseDetection: visibility gate and frame classifier.                *)
(* A frame is a function from Slots to a landmark record [x, y,            *)
(* visibility] or Missing.                                                 *)
(***************************************************************************)
Landmark(x, y, v) == [x |-> x, y |-> y, visibility |-> v]

\* SlotVisible with the comparison reversed (<= for >=)
SlotVisible_Reversed(landmarks, idx, minVisibility) ==
  /\ landmarks[idx] # Missing
  /\ landmarks[idx].visibility # 0
  /\ landmarks[idx].visibility <= minVisibility

\* landmarks[idx] && landmarks[idx].visibility &&
\*   landmarks[idx].visibility >= minVisibility
SlotVisible(landmarks, idx, minVisibility) ==
  /\ landmarks[idx] # Missing
  /\ landmarks[idx].visibility # 0
  /\ landmarks[idx].visibility >= minVisibility

criticalIndices ==
  {POSE_LANDMARKS.NOSE, POSE_LANDMARKS.LEFT_SHOULDER, POSE_LANDMARKS.RIGHT_SHOULDER,
   POSE_LANDMARKS.LEFT_HIP, POSE_LANDMARKS.RIGHT_HIP}

optionalIndices ==
  {POSE_LANDMARKS.LEFT_ELBOW, POSE_LANDMARKS.RIGHT_ELBOW,
   POSE_LANDMARKS.LEFT_KNEE, POSE_LANDMARKS.RIGHT_KNEE,
   POSE_LANDMARKS.LEFT_ANKLE, POSE_LANDMARKS.RIGHT_ANKLE}

\* areLandmarksVisible asking for more than four optional landmarks
areLandmarksVisible_MoreThanFour(landmarks, minVisibility) ==
  LET criticalVisible ==
        \A idx \in criticalIndices : SlotVisible(landmarks, idx, minVisibility)
      optionalVisible ==
        Cardinality({idx \in optionalIndices : SlotVisible(landmarks, idx, minVisibility)})
  IN IF ~criticalVisible THEN FALSE ELSE optionalVisible > 4

areLandmarksVisible(landmarks, minVisibility) ==
  LET criticalVisible ==
        \A idx \in criticalIndices : SlotVisible(landmarks, idx, minVisibility)
      optionalVisible ==
        Cardinality({idx \in optionalIndices : SlotVisible(landmarks, idx, minVisibility)})
  IN IF ~criticalVisible THEN FALSE ELSE optionalVisible >= 4

getVerticalDistance(ay, by) == Abs(ay - by)
getHorizontalDistance(ax, bx) == Abs(ax - bx)

\* !lm || !lm.visibility || lm.visibility < 0.3
NotSeen(lm) == lm = Missing \/ lm.visibility = 0 \/ lm.visibility < 30

\* InsufficientVisibility without the generic string: no feedback when
\* none of face, shoulders, hips is missing
InsufficientVisibility_NoGenericMessage(landmarks) ==
  LET nose == landmarks[POSE_LANDMARKS.NOSE]
      leftShoulder == landmarks[POSE_LANDMARKS.LEFT_SHOULDER]
      rightShoulder == landmarks[POSE_LANDMARKS.RIGHT_SHOULDER]
      leftHip == landmarks[POSE_LANDMARKS.LEFT_HIP]
      rightHip == landmarks[POSE_LANDMARKS.RIGHT_HIP]
      missingParts ==
        (IF NotSeen(nose) THEN <<"face">> ELSE <<>>)
        \o (IF NotSeen(leftShoulder) \/ NotSeen(rightShoulder)
            THEN <<"shoulders">> ELSE <<>>)
        \o (IF NotSeen(leftHip) \/ NotSeen(rightHip) THEN <<"hips">> ELSE <<>>)
  IN [threw |-> FALSE, isPlank |-> FALSE, confidence |-> 0,
      feedback |-> IF Len(missingParts) > 0 THEN <<MsgCannotSee(missingParts)>>
                   ELSE <<>>]

\* the early return of detectPlankPosition when the visibility gate fails
InsufficientVisibility(landmarks) ==
  LET nose == landmarks[POSE_LANDMARKS.NOSE]
      leftShoulder == landmarks[POSE_LANDMARKS.LEFT_SHOULDER]
      rightShoulder == landmarks[POSE_LANDMARKS.RIGHT_SHOULDER]
      leftHip == landmarks[POSE_LANDMARKS.LEFT_HIP]
      rightHip == landmarks[POSE_LANDMARKS.RIGHT_HIP]
      missingParts ==
        (IF NotSeen(nose) THEN <<"face">> ELSE <<>>)
        \o (IF NotSeen(leftShoulder) \/ NotSeen(rightShoulder)
            THEN <<"shoulders">> ELSE <<>>)
        \o (IF NotSeen(leftHip) \/ NotSeen(rightHip) THEN <<"hips">> ELSE <<>>)
      feedbackMsg ==
        IF Len(missingParts) > 0 THEN MsgCannotSee(missingParts)
        ELSE MsgCannotSeeEnough
  IN [threw |-> FALSE, isPlank |-> FALSE, confidence |-> 0,
      feedback |-> <<feedbackMsg>>]

\* A check contributes a penalty and at most one feedback string.
Violation(penalty, msgs) == [penalty |-> penalty, feedback |-> msgs]
NoViolation == Violation(0, <<>>)

\* 1. body is horizontal; shoulderY, hipY, kneeY are the doubled averages
CheckBodyLevel(shoulderY, hipY, kneeY) ==
  LET bodyLevelness == Max(getVerticalDistance(shoulderY, hipY),
                           getVerticalDistance(hipY, kneeY))
  IN IF GreaterThan(bodyLevelness, 32, 15) THEN Violation(30, <<MsgLevelBad>>)
     ELSE IF GreaterThan(bodyLevelness, 32, 10) THEN Violation(15, <<MsgLevelMild>>)
     ELSE NoViolation

\* 2. head position
CheckHead(nose, leftShoulder) ==
  LET noseShoulderDiff == getVerticalDistance(nose.y, leftShoulder.y)
  IN IF GreaterThan(noseShoulderDiff, 16, 15) THEN Violation(20, <<MsgHead>>)
     ELSE IF GreaterThan(noseShoulderDiff, 16, 10) THEN Violation(10, <<>>)
     ELSE NoViolation

\* 3. arms extended: elbow.y > shoulder.y - 0.05 on both sides
CheckArms(leftElbow, leftShoulder, rightElbow, rightShoulder) ==
  LET leftArmExtended == 100 * leftElbow.y > 100 * leftShoulder.y - 5 * 16
      rightArmExtended == 100 * rightElbow.y > 100 * rightShoulder.y - 5 * 16
  IN IF ~leftArmExtended \/ ~rightArmExtended THEN Violation(25, <<MsgArms>>)
     ELSE NoViolation

\* CheckElbows with a penalty of 5 for 15
CheckElbows_SmallPenalty(leftElbow, rightElbow) ==
  LET elbowLevelness == getVerticalDistance(leftElbow.y, rightElbow.y)
  IN IF GreaterThan(elbowLevelness, 16, 10) THEN Violation(5, <<MsgElbows>>)
     ELSE NoViolation

\* 4. elbow alignment
CheckElbows(leftElbow, rightElbow) ==
  LET elbowLevelness == getVerticalDistance(leftElbow.y, rightElbow.y)
  IN IF GreaterThan(elbowLevelness, 16, 10) THEN Violation(15, <<MsgElbows>>)
     ELSE NoViolation

\* 5. shoulder width
CheckShoulderWidth(leftShoulder, rightShoulder) ==
  LET shoulderWidth == getHorizontalDistance(leftShoulder.x, rightShoulder.x)
  IN IF LessThan(shoulderWidth, 16, 15) THEN Violation(20, <<MsgShoulders>>)
     ELSE NoViolation

\* CheckLegs whose first tier pushes no feedback string
CheckLegs_NoMessage(hipY, kneeY, ankleY) ==
  LET legStraightness == Abs(kneeY - hipY) + Abs(kneeY - ankleY)
  IN IF GreaterThan(legStraightness, 32, 15) THEN Violation(25, <<>>)
     ELSE IF GreaterThan(legStraightness, 32, 10) THEN Violation(10, <<>>)
     ELSE NoViolation

\* 6. legs straight; the arguments are the doubled averages
CheckLegs(hipY, kneeY, ankleY) ==
  LET legStraightness == Abs(kneeY - hipY) + Abs(kneeY - ankleY)
  IN IF GreaterThan(legStraightness, 32, 15) THEN Violation(25, <<MsgLegs>>)
     ELSE IF GreaterThan(legStraightness, 32, 10) THEN Violation(10, <<>>)
     ELSE NoViolation

\* 7. body not too high or low in the frame: (shoulderY + hipY + kneeY) / 3
CheckFramePosition(shoulderY, hipY, kneeY) ==
  LET avgBodyY == shoulderY + hipY + kneeY
  IN IF LessThan(avgBodyY, 96, 30) THEN Violation(15, <<MsgTooHigh>>)
     ELSE IF GreaterThan(avgBodyY, 96, 80) THEN Violation(15, <<MsgTooLow>>)
     ELSE NoViolation

\* 8. left-right symmetry
CheckSymmetry(leftShoulder, rightShoulder, leftHip, rightHip, leftKnee, rightKnee) ==
  LET leftRightSymmetry == Abs(leftShoulder.y - rightShoulder.y)
                           + Abs(leftHip.y - rightHip.y)
                           + Abs(leftKnee.y - rightKnee.y)
  IN IF GreaterThan(leftRightSymmetry, 16, 15) THEN Violation(15, <<MsgSymmetry>>)
     ELSE NoViolation

\* the checks of one frame, in source order
Checks(landmarks) ==
  LET nose == landmarks[POSE_LANDMARKS.NOSE]
      leftShoulder == landmarks[POSE_LANDMARKS.LEFT_SHOULDER]
      rightShoulder == landmarks[POSE_LANDMARKS.RIGHT_SHOULDER]
      leftElbow == landmarks[POSE_LANDMARKS.LEFT_ELBOW]
      rightElbow == landmarks[POSE_LANDMARKS.RIGHT_ELBOW]
      leftHip == landmarks[POSE_LANDMARKS.LEFT_HIP]
      rightHip == landmarks[POSE_LANDMARKS.RIGHT_HIP]
      leftKnee == landmarks[POSE_LANDMARKS.LEFT_KNEE]
      rightKnee == landmarks[POSE_LANDMARKS.RIGHT_KNEE]
      leftAnkle == landmarks[POSE_LANDMARKS.LEFT_ANKLE]
      rightAnkle == landmarks[POSE_LANDMARKS.RIGHT_ANKLE]
      shoulderY == leftShoulder.y + rightShoulder.y
      hipY == leftHip.y + rightHip.y
      kneeY == leftKnee.y + rightKnee.y
      ankleY == leftAnkle.y + rightAnkle.y
  IN << CheckBodyLevel(shoulderY, hipY, kneeY),
        CheckHead(nose, leftShoulder),
        CheckArms(leftElbow, leftShoulder, rightElbow, rightShoulder),
        CheckElbows(leftElbow, rightElbow),
        CheckShoulderWidth(leftShoulder, rightShoulder),
        CheckLegs(hipY, kneeY, ankleY),
        CheckFramePosition(shoulderY, hipY, kneeY),
        CheckSymmetry(leftShoulder, rightShoulder, leftHip, rightHip,
                      leftKnee, rightKnee) >>

RECURSIVE SumPenalties(_)
SumPenalties(checks) ==
  IF Len(checks) = 0 THEN 0
  ELSE Head(checks).penalty + SumPenalties(Tail(checks))

RECURSIVE CollectFeedback(_)
CollectFeedback(checks) ==
  IF Len(checks) = 0 THEN <<>>
  ELSE Head(checks).feedback \o CollectFeedback(Tail(checks))

\* Verdict passing only above the threshold (> for >=)
Verdict_StrictThreshold(confidence, feedback) ==
  confidence > PassThreshold /\ Len(feedback) <= MaxViolations

\* const isPlank = confidence >= 55 && feedback.length <= 3
Verdict(confidence, feedback) ==
  confidence >= PassThreshold /\ Len(feedback) <= MaxViolations

\* WithAffirmation appending the string (push for unshift)
WithAffirmation_Appends(isPlank, confidence, feedback) ==
  IF isPlank /\ confidence >= 85 THEN feedback \o <<MsgPerfect>>
  ELSE IF isPlank /\ confidence >= 70 THEN feedback \o <<MsgGood>>
  ELSE IF isPlank THEN feedback \o <<MsgDetected>>
  ELSE feedback

\* the feedback.unshift(...) cascade
WithAffirmation(isPlank, confidence, feedback) ==
  IF isPlank /\ confidence >= 85 THEN <<MsgPerfect>> \o feedback
  ELSE IF isPlank /\ confidence >= 70 THEN <<MsgGood>> \o feedback
  ELSE IF isPlank THEN <<MsgDetected>> \o feedback
  ELSE feedback

\* Reading .y or .x of a slot that holds no landmark raises a TypeError.
\* Past the visibility gate the critical slots exist; the optional ones
\* (elbows, knees, ankles) are all dereferenced by the checks.
DereferencesMissing(landmarks) ==
  \E idx \in optionalIndices : landmarks[idx] = Missing

Threw == [threw |-> TRUE, isPlank |-> FALSE, confidence |-> 0, feedback |-> <<>>]

\* detectPlankPosition returning the running confidence without Math.max(0, .)
detectPlankPosition_Unclamped(landmarks) ==
  IF ~areLandmarksVisible(landmarks, DefaultMinVisibility)
  THEN InsufficientVisibility(landmarks)
  ELSE IF DereferencesMissing(landmarks) THEN Threw
  ELSE LET checks == Checks(landmarks)
           confidence == 100 - SumPenalties(checks)
           feedback == CollectFeedback(checks)
           isPlank == Verdict(confidence, feedback)
       IN [threw |-> FALSE,
           isPlank |-> isPlank,
           confidence |-> confidence,
           feedback |-> WithAffirmation(isPlank, confidence, feedback)]

detectPlankPosition(landmarks) ==
  IF ~areLandmarksVisible(landmarks, DefaultMinVisibility)
  THEN InsufficientVisibility(landmarks)
  ELSE IF DereferencesMissing(landmarks) THEN Threw
  ELSE LET checks == Checks(landmarks)
           confidence == 100 - SumPenalties(checks)
           feedback == CollectFeedback(checks)
           isPlank == Verdict(confidence, feedback)
       IN [threw |-> FALSE,
           isPlank |-> isPlank,
           confidence |-> Max(0, confidence),
           feedback |-> WithAffirmation(isPlank, confidence, feedback)]


(***************************************************************************)
(* Frames fed to the classifier.  A frame is described by the vertical     *)
(* position of the whole body (shift), the displacement of single          *)
(* landmarks from it, and a visibility pattern.                            *)
(***************************************************************************)
VisibilityPatterns ==
  {"all", "none", "noFace", "fourLimbs", "threeLimbs", "noAnkles", "empty"}

\* visibility of a slot under a pattern, in hundredths
PatternVisibility(pattern, idx) ==
  CASE pattern = "none" -> 0
    [] pattern = "noFace" /\ idx = POSE_LANDMARKS.NOSE -> 20
    [] pattern = "fourLimbs"
       /\ idx \in {POSE_LANDMARKS.LEFT_ELBOW, POSE_LANDMARKS.RIGHT_ELBOW} -> 10
    [] pattern = "threeLimbs"
       /\ idx \in {POSE_LANDMARKS.LEFT_ELBOW, POSE_LANDMARKS.RIGHT_ELBOW,
                   POSE_LANDMARKS.LEFT_KNEE} -> 10
    [] OTHER -> 90

\* slots that hold no landmark under a pattern
PatternMissing(pattern, idx) ==
  \/ pattern = "empty"
  \/ pattern = "noAnkles"
     /\ idx \in {POSE_LANDMARKS.LEFT_ANKLE, POSE_LANDMARKS.RIGHT_ANKLE}

BuildFrame(k) ==
  LET base == 8 + k.shift
      pos(idx) ==
        CASE idx = POSE_LANDMARKS.NOSE -> <<4, base + k.nose>>
          [] idx = POSE_LANDMARKS.LEFT_SHOULDER -> <<4, base>>
          [] idx = POSE_LANDMARKS.RIGHT_SHOULDER -> <<k.rsX, base + k.rsY>>
          [] idx = POSE_LANDMARKS.LEFT_ELBOW -> <<4, base + k.le>>
          [] idx = POSE_LANDMARKS.RIGHT_ELBOW -> <<8, base + k.re>>
          [] idx = POSE_LANDMARKS.LEFT_HIP -> <<10, base + k.lh>>
          [] idx = POSE_LANDMARKS.RIGHT_HIP -> <<11, base + k.rh>>
          [] idx = POSE_LANDMARKS.LEFT_KNEE -> <<13, base + k.lk>>
          [] idx = POSE_LANDMARKS.RIGHT_KNEE -> <<13, base + k.rk>>
          [] idx = POSE_LANDMARKS.LEFT_ANKLE -> <<15, base + k.ank>>
          [] idx = POSE_LANDMARKS.RIGHT_ANKLE -> <<15, base + k.ank>>
  IN [idx \in Slots |->
        IF PatternMissing(k.vis, idx) THEN Missing
        ELSE Landmark(pos(idx)[1], pos(idx)[2], PatternVisibility(k.vis, idx))]

\* a level, centred, fully visible body
StraightKnobs ==
  [shift |-> 0, nose |-> 0, rsX |-> 8, rsY |-> 0, le |-> 0, re |-> 0,
   lh |-> 0, rh |-> 0, lk |-> 0, rk |-> 0, ank |-> 0, vis |-> "all"]

FormKnobs ==
  [shift : {-4, 0, 5}, nose : {0, 2, 3}, rsX : {6, 8}, rsY : {0, 2},
   le : {-1, 0}, re : {0, 2}, lh : {0, 3}, rh : {0, 3},
   lk : {0, 2}, rk : {0, 2}, ank : {0, 3}, vis : {"all"}]

ClassifierFrames ==
  {BuildFrame(k) : k \in FormKnobs}
  \cup {BuildFrame([StraightKnobs EXCEPT !.vis = p]) : p \in VisibilityPatterns}

\* the frames the estimator returns to the hook
\* (a straight body, one with sagging hips and a raised elbow, and one whose
\* ankle slots are absent)
SampleFrames ==
  {BuildFrame(StraightKnobs),
   BuildFrame([StraightKnobs EXCEPT !.lh = 3, !.rh = 3, !.le = -1]),
   BuildFrame([StraightKnobs EXCEPT !.vis = "noAnkles"])}

\* what a slot of a frame can hold: no landmark (-1), or a landmark of
\* visibility 0, 0.29 or 0.30
SlotStates == {-1, 0, 29, 30}

\* the thresholds areLandmarksVisible is called with
MinVisibilities == {0, 29, DefaultMinVisibility, 31}

\* the landmarks of body with the slots in the states v
WithVisibility(body, v) ==
  [idx \in Slots |->
     IF v[idx] = -1 THEN Missing
     ELSE Landmark(body[idx].x, body[idx].y, v[idx])]

\* every state of the critical slots with the optional ones at 0.30, every
\* state of the optional slots with the critical ones at 0.30, and all
\* slots in the same state (among them the empty frame and the frame of
\* visibility 0)
SlotAssignments ==
  {[idx \in Slots |-> IF idx \in criticalIndices THEN c[idx] ELSE 30] :
     c \in [criticalIndices -> SlotStates]}
  \cup {[idx \in Slots |-> IF idx \in optionalIndices THEN o[idx] ELSE 30] :
          o \in [optionalIndices -> SlotStates]}
  \cup {[idx \in Slots |-> st] : st \in SlotStates}

\* a body with sagging hips and a raised elbow, seen in every assignment
VisibilityFrames ==
  {WithVisibility(BuildFrame([StraightKnobs EXCEPT !.lh = 3, !.rh = 3, !.le = -1]), v) :
     v \in SlotAssignments}


(***************************************************************************)
(* hooks/usePoseDetection: state of one mounted hook.                      *)
(***************************************************************************)
VARIABLES
  options,                \* what the caller passed: thresholds (or Absent), enableDetection
  mounted,                \* `mounted` of the initialisation effect
  initPc,                 \* position of initializePoseLandmarker
  landmarker,             \* the PoseLandmarker instance: "none", "open", "closed"
  poseLandmarkerRef,      \* "null" or "set"
  isReady, isProcessing, error, detectionResult,
  plankDetectedCountRef, plankLostCountRef, isPlankActiveRef,
  sinceLastDetection,     \* performance.now() - lastDetectionTimeRef.current, clipped at ThrottleMs
  \* observations of the run
  outcome,                \* what the last call did
  fired,                  \* the callbacks the last call invoked, in order
  lastEvent,              \* the last callback invoked since construction or reset
  passRun, failRun,       \* consecutive passing / failing processed frames since construction or reset
  fresh,                  \* a newly constructed gate fed the frames processed since the last
                          \* reset, and whether that reset hit an active gate
  \* the landmarks handed to the classifier by the last call (in the
  \* classifier's own specification: the frame drawn) and, there, its result
  frame, result

hookVars ==
  <<options, mounted, initPc, landmarker, poseLandmarkerRef, isReady,
    isProcessing, error, detectionResult, plankDetectedCountRef,
    plankLostCountRef, isPlankActiveRef, sinceLastDetection, outcome, fired,
    lastEvent, passRun, failRun, fresh>>

classifierVars == <<frame, result>>

(***************************************************************************)
(* PlankTimer and the VideoRecorder component it renders while appState    *)
(* is 'recording'.  The component's state exists while it is mounted; the  *)
(* variables hold their initial values otherwise.  The component's own     *)
(* `error` state is set only together with onError(errorMsg), which        *)
(* unmounts the component, so it is never observed and is left out.        *)
(***************************************************************************)
VARIABLES
  appState, errorMessage, detectionMode,       \* PlankTimer
  phase, countdown, elapsedTime, videoBlob, isRestarting, finalFrameData,
  streamRef,              \* "null", "live" or "stopped" (tracks stopped, reference kept)
  recorderRef,            \* "null", or the state of the Recorder referenced: "recording", "inactive"
  animationFrameRef,      \* a drawFrame callback is scheduled
  detectionFrameRef,      \* a runDetection callback is scheduled
  sinceStartTime,         \* Date.now() - startTimeRef.current in seconds; NoStartTime while null
  cameraPc,               \* position of setupCamera
  pendingStops,           \* recorder.stop() promises awaited by stopRecording of this mount
  staleStops,             \* those awaited by stopRecording of an earlier mount
  effects                 \* what the last step did to recorders, loops and the start time

timerVars == <<appState, errorMessage, detectionMode>>

recorderVars ==
  <<phase, countdown, elapsedTime, videoBlob, isRestarting, finalFrameData,
    streamRef, recorderRef, animationFrameRef, detectionFrameRef,
    sinceStartTime, cameraPc, pendingStops, staleStops, effects>>

componentVars == <<timerVars, recorderVars>>

(***************************************************************************)
(* One instance of the class VideoRecorder of utils/videoRecorder.ts, the  *)
(* MediaRecorder objects it has constructed and the promises its stop()    *)
(* has returned.                                                           *)
(***************************************************************************)
VARIABLES
  mediaRecorder,          \* this.mediaRecorder: 0 for null, or the index of a MediaRecorder
  recordedChunks,         \* this.recordedChunks
  stream,                 \* this.stream: "null" or "canvasStream"
  recorders,              \* the MediaRecorder objects constructed, in order
  promises,               \* the promises returned by stop(), in order
  tracks                  \* the tracks of the canvas stream: "live" or "ended"

instanceVars == <<mediaRecorder, recordedChunks, stream, recorders, promises, tracks>>

vars == <<hookVars, classifierVars, componentVars, instanceVars>>

\* an option the caller left out; a supplied option n is <<n>>
Absent == <<>>
NoResult == [null |-> TRUE]
NoError == "null"
ErrInit == "Failed to load pose detection. Please refresh the page."
ErrDetection == "Detection error occurred"

OnPlankDetected == "onPlankDetected"
OnPlankLost == "onPlankLost"

\* thresholds a caller may pass; nothing in the hook rejects a value
ThresholdValues == (-1) .. MaxThreshold
ThresholdOptions == {Absent} \cup {<<n>> : n \in ThresholdValues}

\* destructuring defaults of the options parameter
stabilityFrames ==
  IF options.stabilityFrames = Absent THEN DefaultStabilityFrames
  ELSE options.stabilityFrames[1]

gracePeriodFrames ==
  IF options.gracePeriodFrames = Absent THEN DefaultGracePeriodFrames
  ELSE options.gracePeriodFrames[1]

(***************************************************************************)
(* The stability gate.  A gate value is the three refs; a transition       *)
(* returns the new refs and the callbacks it invoked.                      *)
(***************************************************************************)
Gate(detected, lost, active) ==
  [plankDetectedCount |-> detected, plankLostCount |-> lost, isPlankActive |-> active]

InitialGate == Gate(0, 0, FALSE)

CurrentGate == Gate(plankDetectedCountRef, plankLostCountRef, isPlankActiveRef)

\* OnPlankFrame confirming only past the threshold (> for >=)
OnPlankFrame_StrictThreshold(g, stability) ==
  LET detected == g.plankDetectedCount + 1
      confirm == ~g.isPlankActive /\ detected > stability
  IN [gate |-> Gate(detected, 0, IF confirm THEN TRUE ELSE g.isPlankActive),
      fired |-> IF confirm THEN <<OnPlankDetected>> ELSE <<>>]

\* OnPlankFrame without plankLostCountRef.current = 0
OnPlankFrame_KeepsLostCount(g, stability) ==
  LET detected == g.plankDetectedCount + 1
      confirm == ~g.isPlankActive /\ detected >= stability
  IN [gate |-> Gate(detected, g.plankLostCount,
                    IF confirm THEN TRUE ELSE g.isPlankActive),
      fired |-> IF confirm THEN <<OnPlankDetected>> ELSE <<>>]

\* if (plankResult.isPlank) { ... }
OnPlankFrame(g, stability) ==
  LET detected == g.plankDetectedCount + 1
      confirm == ~g.isPlankActive /\ detected >= stability
  IN [gate |-> Gate(detected, 0, IF confirm THEN TRUE ELSE g.isPlankActive),
      fired |-> IF confirm THEN <<OnPlankDetected>> ELSE <<>>]

\* OnNotPlankFrame confirming only past the grace period (> for >=)
OnNotPlankFrame_StrictGrace(g, grace) ==
  LET lost == g.plankLostCount + 1
      confirm == g.isPlankActive /\ lost > grace
  IN [gate |-> Gate(0, lost, IF confirm THEN FALSE ELSE g.isPlankActive),
      fired |-> IF confirm THEN <<OnPlankLost>> ELSE <<>>]

\* OnNotPlankFrame without the isPlankActiveRef.current test
OnNotPlankFrame_IgnoresActive(g, grace) ==
  LET lost == g.plankLostCount + 1
      confirm == lost >= grace
  IN [gate |-> Gate(0, lost, IF confirm THEN FALSE ELSE g.isPlankActive),
      fired |-> IF confirm THEN <<OnPlankLost>> ELSE <<>>]

\* OnNotPlankFrame without plankDetectedCountRef.current = 0
OnNotPlankFrame_KeepsDetectedCount(g, grace) ==
  LET lost == g.plankLostCount + 1
      confirm == g.isPlankActive /\ lost >= grace
  IN [gate |-> Gate(g.plankDetectedCount, lost,
                    IF confirm THEN FALSE ELSE g.isPlankActive),
      fired |-> IF confirm THEN <<OnPlankLost>> ELSE <<>>]

\* ... else { ... } of a classified frame
OnNotPlankFrame(g, grace) ==
  LET lost == g.plankLostCount + 1
      confirm == g.isPlankActive /\ lost >= grace
  IN [gate |-> Gate(0, lost, IF confirm THEN FALSE ELSE g.isPlankActive),
      fired |-> IF confirm THEN <<OnPlankLost>> ELSE <<>>]

\* OnNoPerson without plankDetectedCountRef.current = 0
OnNoPerson_KeepsDetectedCount(g, grace) ==
  LET lost == g.plankLostCount + 1
      confirm == g.isPlankActive /\ lost >= grace
  IN [gate |-> Gate(g.plankDetectedCount, lost,
                    IF confirm THEN FALSE ELSE g.isPlankActive),
      fired |-> IF confirm THEN <<OnPlankLost>> ELSE <<>>]

\* OnNoPerson with the comparison > for >= against the grace period
OnNoPerson_StrictGrace(g, grace) ==
  LET lost == g.plankLostCount + 1
      confirm == g.isPlankActive /\ lost > grace
  IN [gate |-> Gate(0, lost, IF confirm THEN FALSE ELSE g.isPlankActive),
      fired |-> IF confirm THEN <<OnPlankLost>> ELSE <<>>]

\* the branch taken when the estimator returns no landmarks
OnNoPerson(g, grace) ==
  LET lost == g.plankLostCount + 1
      confirm == g.isPlankActive /\ lost >= grace
  IN [gate |-> Gate(0, lost, IF confirm THEN FALSE ELSE g.isPlankActive),
      fired |-> IF confirm THEN <<OnPlankLost>> ELSE <<>>]

NoPersonResult ==
  [isPlank |-> FALSE, confidence |-> 0, feedback |-> <<MsgNoPerson>>]

\* the PlankDetectionResult stored by setDetectionResult
AsResult(r) ==
  [isPlank |-> r.isPlank, confidence |-> r.confidence, feedback |-> r.feedback]

\* what detectForVideo can do with a video frame: throw, return no
\* landmarks, or return the landmarks of one person
EstimatorOutcomes == {"throws", "noLandmarks", "landmarks"}

\* the last call handed no landmarks to the classifier
NoFrame == BuildFrame([StraightKnobs EXCEPT !.vis = "empty"])

\* result.landmarks[0] when the estimator found a person
LandmarksOf(estimate) ==
  IF estimate = "landmarks" THEN SampleFrames
  ELSE {NoFrame}

\* startTimeRef.current is null
NoStartTime == -1
NoBlob == "null"
NoFinalFrame == "null"
\* errorMessage is null
NoMessage == "null"
\* useState(10) of countdown
InitialCountdown == 10

\* the state a VideoRecorder component is constructed with (and the value
\* the variables hold while none is mounted)
RecorderUnmounted ==
  /\ phase = "preparing"
  /\ countdown = InitialCountdown
  /\ elapsedTime = 0
  /\ videoBlob = NoBlob
  /\ isRestarting = FALSE
  /\ finalFrameData = NoFinalFrame
  /\ streamRef = "null"
  /\ recorderRef = "null"
  /\ animationFrameRef = FALSE
  /\ detectionFrameRef = FALSE
  /\ sinceStartTime = NoStartTime
  /\ cameraPc = "off"
  /\ pendingStops = 0

\* the fields of a VideoRecorder as constructed; nothing recorded yet
Constructed ==
  /\ mediaRecorder = 0
  /\ recordedChunks = <<>>
  /\ stream = "null"
  /\ recorders = <<>>
  /\ promises = <<>>
  /\ tracks = "live"

\* PlankTimer as constructed: idle, no message, detection mode off
TimerIdle ==
  /\ appState = "idle"
  /\ errorMessage = NoMessage
  /\ detectionMode = FALSE
  /\ RecorderUnmounted
  /\ staleStops = 0
  /\ effects = {}

Init ==
  /\ TimerIdle
  /\ Constructed
  /\ options \in [stabilityFrames : ThresholdOptions,
                  gracePeriodFrames : ThresholdOptions,
                  enableDetection : BOOLEAN]
  /\ mounted = TRUE
  /\ initPc = IF options.enableDetection THEN "awaitVision" ELSE "off"
  /\ landmarker = "none"
  /\ poseLandmarkerRef = "null"
  /\ isReady = FALSE
  /\ isProcessing = options.enableDetection
  /\ error = NoError
  /\ detectionResult = NoResult
  /\ plankDetectedCountRef = 0
  /\ plankLostCountRef = 0
  /\ isPlankActiveRef = FALSE
  /\ sinceLastDetection = 0
  /\ outcome = "constructed"
  /\ fired = <<>>
  /\ lastEvent = "none"
  /\ passRun = 0
  /\ failRun = 0
  /\ fresh = [gate |-> InitialGate, fired |-> <<>>, resetFromActive |-> FALSE]
  /\ frame = NoFrame
  /\ result = NoResult

gateVars == <<plankDetectedCountRef, plankLostCountRef, isPlankActiveRef>>
lifecycleVars == <<options, mounted, initPc, landmarker, poseLandmarkerRef, isReady, isProcessing>>
runVars == <<lastEvent, passRun, failRun>>

\* a call that returns before touching anything
Ignored(why) ==
  /\ outcome' = why
  /\ fired' = <<>>
  /\ fresh' = [fresh EXCEPT !.fired = <<>>]
  /\ frame' = NoFrame
  /\ UNCHANGED <<lifecycleVars, gateVars, runVars, error, detectionResult,
                 sinceLastDetection, result>>

\* Caught counting the frame as a failing one
Caught_CountsAsFailing ==
  /\ error' = ErrDetection
  /\ plankLostCountRef' = plankLostCountRef + 1
  /\ plankDetectedCountRef' = 0
  /\ sinceLastDetection' = 0
  /\ outcome' = "error"
  /\ fired' = <<>>
  /\ fresh' = [fresh EXCEPT !.fired = <<>>]
  /\ frame' = NoFrame
  /\ UNCHANGED <<lifecycleVars, isPlankActiveRef, runVars, detectionResult, result>>

\* the catch block of detectPose, reached after lastDetectionTimeRef was set
Caught ==
  /\ error' = ErrDetection
  /\ sinceLastDetection' = 0
  /\ outcome' = "error"
  /\ fired' = <<>>
  /\ fresh' = [fresh EXCEPT !.fired = <<>>]
  /\ frame' = NoFrame
  /\ UNCHANGED <<lifecycleVars, gateVars, runVars, detectionResult, result>>

\* Processed holding the reported result while the gate is active
Processed_HoldsResultWhileActive(kind, newResult, isPlank, t) ==
  /\ detectionResult' = IF isPlankActiveRef THEN detectionResult ELSE newResult
  /\ plankDetectedCountRef' = t.gate.plankDetectedCount
  /\ plankLostCountRef' = t.gate.plankLostCount
  /\ isPlankActiveRef' = t.gate.isPlankActive
  /\ sinceLastDetection' = 0
  /\ outcome' = kind
  /\ fired' = t.fired
  /\ lastEvent' = IF t.fired = <<>> THEN lastEvent ELSE t.fired[Len(t.fired)]
  /\ passRun' = IF isPlank THEN passRun + 1 ELSE 0
  /\ failRun' = IF isPlank THEN 0 ELSE failRun + 1
  /\ LET f == IF isPlank THEN OnPlankFrame(fresh.gate, stabilityFrames)
              ELSE OnNotPlankFrame(fresh.gate, gracePeriodFrames)
     IN fresh' = [fresh EXCEPT !.gate = f.gate, !.fired = f.fired]
  /\ UNCHANGED <<lifecycleVars, error, result>>

\* newResult is reported, the gate moves to t.gate and the callbacks t.fired
\* are invoked
Processed(kind, newResult, isPlank, t) ==
  /\ detectionResult' = newResult
  /\ plankDetectedCountRef' = t.gate.plankDetectedCount
  /\ plankLostCountRef' = t.gate.plankLostCount
  /\ isPlankActiveRef' = t.gate.isPlankActive
  /\ sinceLastDetection' = 0
  /\ outcome' = kind
  /\ fired' = t.fired
  /\ lastEvent' = IF t.fired = <<>> THEN lastEvent ELSE t.fired[Len(t.fired)]
  /\ passRun' = IF isPlank THEN passRun + 1 ELSE 0
  /\ failRun' = IF isPlank THEN 0 ELSE failRun + 1
  /\ LET f == IF isPlank THEN OnPlankFrame(fresh.gate, stabilityFrames)
              ELSE OnNotPlankFrame(fresh.gate, gracePeriodFrames)
     IN fresh' = [fresh EXCEPT !.gate = f.gate, !.fired = f.fired]
  /\ UNCHANGED <<lifecycleVars, error, result>>

\* detectPose without the test of poseLandmarkerRef.current
detectPose_SkipsRefCheck(video, estimate, landmarks) ==
  IF ~isReady \/ video = "null"
  THEN Ignored("notReady")
  ELSE IF sinceLastDetection < ThrottleMs
  THEN Ignored("throttled")
  ELSE /\ plankDetectedCountRef < MaxCount
       /\ plankLostCountRef < MaxCount
       /\ CASE estimate = "throws" -> Caught
            [] estimate = "noLandmarks" ->
                 /\ frame' = NoFrame
                 /\ Processed("noPerson", NoPersonResult, FALSE,
                              OnNoPerson(CurrentGate, gracePeriodFrames))
            [] estimate = "landmarks" ->
                 LET plankResult == detectPlankPosition(landmarks)
                 IN IF plankResult.threw THEN Caught
                    ELSE /\ frame' = landmarks
                         /\ Processed("classified", AsResult(plankResult),
                                      plankResult.isPlank,
                                      IF plankResult.isPlank
                                      THEN OnPlankFrame(CurrentGate, stabilityFrames)
                                      ELSE OnNotPlankFrame(CurrentGate, gracePeriodFrames))

\* detectPose dropping a call made exactly 66 ms after the last one (<= for <)
detectPose_InclusiveThrottle(video, estimate, landmarks) ==
  IF poseLandmarkerRef = "null" \/ ~isReady \/ video = "null"
  THEN Ignored("notReady")
  ELSE IF sinceLastDetection <= ThrottleMs
  THEN Ignored("throttled")
  ELSE /\ plankDetectedCountRef < MaxCount
       /\ plankLostCountRef < MaxCount
       /\ CASE estimate = "throws" -> Caught
            [] estimate = "noLandmarks" ->
                 /\ frame' = NoFrame
                 /\ Processed("noPerson", NoPersonResult, FALSE,
                              OnNoPerson(CurrentGate, gracePeriodFrames))
            [] estimate = "landmarks" ->
                 LET plankResult == detectPlankPosition(landmarks)
                 IN IF plankResult.threw THEN Caught
                    ELSE /\ frame' = landmarks
                         /\ Processed("classified", AsResult(plankResult),
                                      plankResult.isPlank,
                                      IF plankResult.isPlank
                                      THEN OnPlankFrame(CurrentGate, stabilityFrames)
                                      ELSE OnNotPlankFrame(CurrentGate, gracePeriodFrames))

detectPose(video, estimate, landmarks) ==
  IF poseLandmarkerRef = "null" \/ ~isReady \/ video = "null"
  THEN Ignored("notReady")
  ELSE IF sinceLastDetection < ThrottleMs
  THEN Ignored("throttled")
  ELSE /\ plankDetectedCountRef < MaxCount
       /\ plankLostCountRef < MaxCount
       /\ CASE estimate = "throws" -> Caught
            [] estimate = "noLandmarks" ->
                 /\ frame' = NoFrame
                 /\ Processed("noPerson", NoPersonResult, FALSE,
                              OnNoPerson(CurrentGate, gracePeriodFrames))
            [] estimate = "landmarks" ->
                 LET plankResult == detectPlankPosition(landmarks)
                 IN IF plankResult.threw THEN Caught
                    ELSE /\ frame' = landmarks
                         /\ Processed("classified", AsResult(plankResult),
                                      plankResult.isPlank,
                                      IF plankResult.isPlank
                                      THEN OnPlankFrame(CurrentGate, stabilityFrames)
                                      ELSE OnNotPlankFrame(CurrentGate, gracePeriodFrames))

\* reset without isPlankActiveRef.current = false
reset_KeepsActive ==
  /\ plankDetectedCountRef' = 0
  /\ plankLostCountRef' = 0
  /\ isPlankActiveRef' = isPlankActiveRef
  /\ detectionResult' = NoResult
  /\ error' = NoError
  /\ outcome' = "reset"
  /\ fired' = <<>>
  /\ lastEvent' = "none"
  /\ passRun' = 0
  /\ failRun' = 0
  /\ fresh' = [gate |-> InitialGate, fired |-> <<>>, resetFromActive |-> isPlankActiveRef]
  /\ frame' = NoFrame
  /\ UNCHANGED <<lifecycleVars, sinceLastDetection, result>>

\* reset without plankDetectedCountRef.current = 0
reset_KeepsDetectedCount ==
  /\ plankDetectedCountRef' = plankDetectedCountRef
  /\ plankLostCountRef' = 0
  /\ isPlankActiveRef' = FALSE
  /\ detectionResult' = NoResult
  /\ error' = NoError
  /\ outcome' = "reset"
  /\ fired' = <<>>
  /\ lastEvent' = "none"
  /\ passRun' = 0
  /\ failRun' = 0
  /\ fresh' = [gate |-> InitialGate, fired |-> <<>>, resetFromActive |-> isPlankActiveRef]
  /\ frame' = NoFrame
  /\ UNCHANGED <<lifecycleVars, sinceLastDetection, result>>

reset ==
  /\ plankDetectedCountRef' = 0
  /\ plankLostCountRef' = 0
  /\ isPlankActiveRef' = FALSE
  /\ detectionResult' = NoResult
  /\ error' = NoError
  /\ outcome' = "reset"
  /\ fired' = <<>>
  /\ lastEvent' = "none"
  /\ passRun' = 0
  /\ failRun' = 0
  /\ fresh' = [gate |-> InitialGate, fired |-> <<>>, resetFromActive |-> isPlankActiveRef]
  /\ frame' = NoFrame
  /\ UNCHANGED <<lifecycleVars, sinceLastDetection, result>>

\* time passes between two calls
Tick ==
  /\ sinceLastDetection < ThrottleMs
  /\ sinceLastDetection' = sinceLastDetection + 33
  /\ outcome' = "tick"
  /\ fired' = <<>>
  /\ fresh' = [fresh EXCEPT !.fired = <<>>]
  /\ frame' = NoFrame
  /\ UNCHANGED <<lifecycleVars, gateVars, runVars, error, detectionResult, result>>

\* a step of the lifecycle leaves the gate and the observations alone
LifecycleStep(what) ==
  /\ outcome' = what
  /\ fired' = <<>>
  /\ fresh' = [fresh EXCEPT !.fired = <<>>]
  /\ frame' = NoFrame
  /\ UNCHANGED <<options, gateVars, runVars, detectionResult,
                 sinceLastDetection, result>>

\* FilesetResolver.forVisionTasks resolves
VisionLoaded ==
  /\ initPc = "awaitVision"
  /\ initPc' = IF mounted THEN "awaitCreate" ELSE "abandoned"
  /\ LifecycleStep("init")
  /\ UNCHANGED <<mounted, landmarker, poseLandmarkerRef, isReady, isProcessing, error>>

\* PoseLandmarker.createFromOptions resolves
LandmarkerCreated ==
  /\ initPc = "awaitCreate"
  /\ landmarker' = "open"
  /\ IF mounted
     THEN /\ initPc' = "done"
          /\ poseLandmarkerRef' = "set"
          /\ isReady' = TRUE
          /\ isProcessing' = FALSE
     ELSE /\ initPc' = "abandoned"
          /\ UNCHANGED <<poseLandmarkerRef, isReady, isProcessing>>
  /\ LifecycleStep("init")
  /\ UNCHANGED <<mounted, error>>

\* either await rejects: the catch block of initializePoseLandmarker
InitFailed ==
  /\ initPc \in {"awaitVision", "awaitCreate"}
  /\ initPc' = "failed"
  /\ IF mounted
     THEN error' = ErrInit /\ isProcessing' = FALSE
     ELSE UNCHANGED <<error, isProcessing>>
  /\ LifecycleStep("initFailed")
  /\ UNCHANGED <<mounted, landmarker, poseLandmarkerRef, isReady>>

\* cleanup of the initialisation effect
Unmount ==
  /\ mounted
  /\ options.enableDetection
  /\ mounted' = FALSE
  /\ IF poseLandmarkerRef = "set"
     THEN landmarker' = "closed" /\ poseLandmarkerRef' = "null"
     ELSE UNCHANGED <<landmarker, poseLandmarkerRef>>
  /\ LifecycleStep("unmount")
  /\ UNCHANGED <<initPc, isReady, isProcessing, error>>

\* the hook on its own: no component is mounted around it
Next ==
  \/ /\ \E video \in {"null", "video"}, estimate \in EstimatorOutcomes :
           \E landmarks \in LandmarksOf(estimate) :
              detectPose(video, estimate, landmarks)
     /\ UNCHANGED <<componentVars, instanceVars>>
  \/ reset /\ UNCHANGED <<componentVars, instanceVars>>
  \/ Tick /\ UNCHANGED <<componentVars, instanceVars>>
  \/ VisionLoaded /\ UNCHANGED <<componentVars, instanceVars>>
  \/ LandmarkerCreated /\ UNCHANGED <<componentVars, instanceVars>>
  \/ InitFailed /\ UNCHANGED <<componentVars, instanceVars>>
  \/ Unmount /\ UNCHANGED <<componentVars, instanceVars>>

Spec == Init /\ [][Next]_vars


(***************************************************************************)
(* The classifier on its own: one frame is drawn and classified.  The      *)
(* hook is left unmounted-idle.                                            *)
(***************************************************************************)
InitClassifier ==
  /\ TimerIdle
  /\ Constructed
  /\ frame \in ClassifierFrames
  /\ result = NoResult
  /\ options = [stabilityFrames |-> Absent, gracePeriodFrames |-> Absent,
                enableDetection |-> FALSE]
  /\ mounted = TRUE
  /\ initPc = "off"
  /\ landmarker = "none"
  /\ poseLandmarkerRef = "null"
  /\ isReady = FALSE
  /\ isProcessing = FALSE
  /\ error = NoError
  /\ detectionResult = NoResult
  /\ plankDetectedCountRef = 0
  /\ plankLostCountRef = 0
  /\ isPlankActiveRef = FALSE
  /\ sinceLastDetection = 0
  /\ outcome = "constructed"
  /\ fired = <<>>
  /\ lastEvent = "none"
  /\ passRun = 0
  /\ failRun = 0
  /\ fresh = [gate |-> InitialGate, fired |-> <<>>, resetFromActive |-> FALSE]

Classify ==
  /\ result = NoResult
  /\ result' = detectPlankPosition(frame)
  /\ UNCHANGED <<frame, hookVars, componentVars, instanceVars>>

NextClassifier == Classify

SpecClassifier == InitClassifier /\ [][NextClassifier]_vars

(***************************************************************************)
(* The visibility gate: one frame is drawn, areLandmarksVisible is called  *)
(* on it with some threshold and detectPlankPosition classifies it.  The   *)
(* hook is idle.                                                           *)
(***************************************************************************)
InitVisibility ==
  /\ TimerIdle
  /\ Constructed
  /\ frame \in VisibilityFrames
  /\ result = NoResult
  /\ options = [stabilityFrames |-> Absent, gracePeriodFrames |-> Absent,
                enableDetection |-> FALSE]
  /\ mounted = TRUE
  /\ initPc = "off"
  /\ landmarker = "none"
  /\ poseLandmarkerRef = "null"
  /\ isReady = FALSE
  /\ isProcessing = FALSE
  /\ error = NoError
  /\ detectionResult = NoResult
  /\ plankDetectedCountRef = 0
  /\ plankLostCountRef = 0
  /\ isPlankActiveRef = FALSE
  /\ sinceLastDetection = 0
  /\ outcome = "constructed"
  /\ fired = <<>>
  /\ lastEvent = "none"
  /\ passRun = 0
  /\ failRun = 0
  /\ fresh = [gate |-> InitialGate, fired |-> <<>>, resetFromActive |-> FALSE]

\* the result holds what areLandmarksVisible(frame, minVisibility) returned
\* and what detectPlankPosition(frame) returned
CheckVisibility(minVisibility) ==
  /\ result = NoResult
  /\ result' = [minVisibility |-> minVisibility,
                visible |-> areLandmarksVisible(frame, minVisibility),
                plankResult |-> detectPlankPosition(frame)]
  /\ UNCHANGED <<frame, hookVars, componentVars, instanceVars>>

NextVisibility == \E minVisibility \in MinVisibilities : CheckVisibility(minVisibility)

SpecVisibility == InitVisibility /\ [][NextVisibility]_vars

(***************************************************************************)
(* calculateAngle over three points of a small grid.  Angles are in        *)
(* millionths of a degree; Math.atan2 is tabulated for the directions the  *)
(* grid has, rounded to that unit.                                         *)
(***************************************************************************)
MaxCoord == 2
Degree == 1000000
Points == [x : 0..MaxCoord, y : 0..MaxCoord]

\* Math.atan of p/q for 0 <= p <= q, q > 0, q <= 4
AtanOctant(p, q) ==
  CASE p = 0 -> 0
    [] p = q -> 45 * Degree
    [] 4 * p = q -> 14036243
    [] 3 * p = q -> 18434949
    [] 2 * p = q -> 26565051
    [] 3 * p = 2 * q -> 33690068
    [] 4 * p = 3 * q -> 36869898

\* Math.atan2(y, x) in (-180, 180] degrees; Math.atan2(0, 0) is 0
Atan2(y, x) ==
  LET ax == Abs(x)
      ay == Abs(y)
      quadrant == IF ay <= ax THEN AtanOctant(ay, ax)
                  ELSE 90 * Degree - AtanOctant(ax, ay)
      upper == IF x >= 0 THEN quadrant ELSE 180 * Degree - quadrant
  IN IF x = 0 /\ y = 0 THEN 0
     ELSE IF y >= 0 THEN upper ELSE -upper

\* calculateAngle without the fold of an angle above 180
calculateAngle_NoFold(a, b, c) ==
  Abs(Atan2(c.y - b.y, c.x - b.x) - Atan2(a.y - b.y, a.x - b.x))

\* radians = atan2(c - b) - atan2(a - b); angle = |radians * 180 / PI|;
\* if (angle > 180.0) angle = 360 - angle
calculateAngle(a, b, c) ==
  LET radians == Atan2(c.y - b.y, c.x - b.x) - Atan2(a.y - b.y, a.x - b.x)
      angle == Abs(radians)
  IN IF angle > 180 * Degree THEN 360 * Degree - angle ELSE angle

InitAngle ==
  /\ TimerIdle
  /\ Constructed
  /\ frame \in [a : Points, b : Points, c : Points]
  /\ result = NoResult
  /\ options = [stabilityFrames |-> Absent, gracePeriodFrames |-> Absent,
                enableDetection |-> FALSE]
  /\ mounted = TRUE
  /\ initPc = "off"
  /\ landmarker = "none"
  /\ poseLandmarkerRef = "null"
  /\ isReady = FALSE
  /\ isProcessing = FALSE
  /\ error = NoError
  /\ detectionResult = NoResult
  /\ plankDetectedCountRef = 0
  /\ plankLostCountRef = 0
  /\ isPlankActiveRef = FALSE
  /\ sinceLastDetection = 0
  /\ outcome = "constructed"
  /\ fired = <<>>
  /\ lastEvent = "none"
  /\ passRun = 0
  /\ failRun = 0
  /\ fresh = [gate |-> InitialGate, fired |-> <<>>, resetFromActive |-> FALSE]

\* the result holds what calculateAngle(frame.a, frame.b, frame.c) returned
MeasureAngle ==
  /\ result = NoResult
  /\ result' = [angle |-> calculateAngle(frame.a, frame.b, frame.c)]
  /\ UNCHANGED <<frame, hookVars, componentVars, instanceVars>>

NextAngle == MeasureAngle

SpecAngle == InitAngle /\ [][NextAngle]_vars

(***************************************************************************)
(* The class VideoRecorder.  A MediaRecorder delivers a data chunk every   *)
(* timeslice while it records; once stopped (by stop() or by the end of    *)
(* its tracks) it is inactive at once and queues a task that delivers the  *)
(* data it still holds and fires its stop event.  A chunk names the        *)
(* MediaRecorder that produced it.                                         *)
(***************************************************************************)
MaxRecordings == 2
MaxChunks == 1
MaxStops == 2

ErrNoRecording == "No active recording"
ErrRecording == "Recording error"
ErrInvalidState == "InvalidStateError"
ErrTypeError == "TypeError"

\* the sizes of event.data
ChunkSizes == {0, 1}

\* what new MediaRecorder(...) and mediaRecorder.start(100) can do
StartOutcomes == {"ok", "constructorThrows", "startThrows"}

\* a MediaRecorder as constructed, with ondataavailable set
NewMediaRecorder(state) ==
  [state |-> state,
   pc |-> IF state = "recording" THEN "running" ELSE "done",
   handlers |-> 0,
   delivered |-> <<>>]

\* the data chunks of a sequence that are not empty
NonEmpty(chunks) ==
  LET Kept(c) == c.size > 0
  IN SelectSeq(chunks, Kept)

\* ondataavailable: if (event.data && event.data.size > 0) push
ondataavailable(chunk) ==
  recordedChunks' = IF chunk.size > 0 THEN Append(recordedChunks, chunk)
                    ELSE recordedChunks

\* start(canvasStream)
start(how) ==
  /\ how # "constructorThrows" => Len(recorders) < MaxRecordings
  /\ how = "ok" => tracks = "live"
  /\ recordedChunks' = <<>>
  /\ stream' = "canvasStream"
  /\ CASE how = "constructorThrows" -> UNCHANGED <<mediaRecorder, recorders>>
       [] how = "startThrows" ->
            /\ recorders' = Append(recorders, NewMediaRecorder("inactive"))
            /\ mediaRecorder' = Len(recorders) + 1
       [] how = "ok" ->
            /\ recorders' = Append(recorders, NewMediaRecorder("recording"))
            /\ mediaRecorder' = Len(recorders) + 1
  /\ UNCHANGED <<promises, tracks>>

\* a promise as stop() leaves it
Promise(of, state, value) == [of |-> of, state |-> state, value |-> value]

\* stop() without the check of this.mediaRecorder: the executor throws
stop_NoNullCheck(inactiveThrows) ==
  /\ Len(promises) < MaxStops
  /\ IF mediaRecorder = 0
     THEN /\ promises' = Append(promises, Promise(0, "rejected", ErrTypeError))
          /\ UNCHANGED recorders
     ELSE LET r == recorders[mediaRecorder]
              p == Len(promises) + 1
          IN IF r.state = "recording"
             THEN /\ recorders' = [recorders EXCEPT ![mediaRecorder] =
                                     [r EXCEPT !.state = "inactive", !.pc = "flushing",
                                               !.handlers = p]]
                  /\ promises' = Append(promises, Promise(mediaRecorder, "pending", <<>>))
             ELSE /\ recorders' = [recorders EXCEPT ![mediaRecorder].handlers = p]
                  /\ promises' = Append(promises,
                                        IF inactiveThrows
                                        THEN Promise(mediaRecorder, "rejected", ErrInvalidState)
                                        ELSE Promise(mediaRecorder, "pending", <<>>))
  /\ UNCHANGED <<mediaRecorder, recordedChunks, stream, tracks>>

\* stop(): without a MediaRecorder the promise is rejected; otherwise onstop
\* and onerror are set and mediaRecorder.stop() is called, which on an
\* inactive MediaRecorder throws or does nothing, depending on the browser
stop(inactiveThrows) ==
  /\ Len(promises) < MaxStops
  /\ IF mediaRecorder = 0
     THEN /\ promises' = Append(promises, Promise(0, "rejected", ErrNoRecording))
          /\ UNCHANGED recorders
     ELSE LET r == recorders[mediaRecorder]
              p == Len(promises) + 1
          IN IF r.state = "recording"
             THEN /\ recorders' = [recorders EXCEPT ![mediaRecorder] =
                                     [r EXCEPT !.state = "inactive", !.pc = "flushing",
                                               !.handlers = p]]
                  /\ promises' = Append(promises, Promise(mediaRecorder, "pending", <<>>))
             ELSE /\ recorders' = [recorders EXCEPT ![mediaRecorder].handlers = p]
                  /\ promises' = Append(promises,
                                        IF inactiveThrows
                                        THEN Promise(mediaRecorder, "rejected", ErrInvalidState)
                                        ELSE Promise(mediaRecorder, "pending", <<>>))
  /\ UNCHANGED <<mediaRecorder, recordedChunks, stream, tracks>>

\* mediaRecorder?.state === 'recording'
isRecording == mediaRecorder # 0 /\ recorders[mediaRecorder].state = "recording"

\* mediaRecorder?.state || 'inactive'
getState == IF mediaRecorder = 0 THEN "inactive" ELSE recorders[mediaRecorder].state

\* the chunk a MediaRecorder delivers next
NextChunk(id, size) ==
  [of |-> id, seq |-> Len(recorders[id].delivered) + 1, size |-> size]

\* the number of chunks the first n MediaRecorders have delivered
RECURSIVE Delivered(_)
Delivered(n) ==
  IF n = 0 THEN 0 ELSE Len(recorders[n].delivered) + Delivered(n - 1)

\* a timeslice of a recording MediaRecorder ends: dataavailable
DataAvailable(id, size) ==
  /\ recorders[id].pc = "running"
  /\ Delivered(Len(recorders)) < MaxChunks
  /\ recorders' = [recorders EXCEPT ![id].delivered = Append(@, NextChunk(id, size))]
  /\ ondataavailable(NextChunk(id, size))
  /\ UNCHANGED <<mediaRecorder, stream, promises, tracks>>

\* the task a stopped MediaRecorder queues: it delivers the data it still
\* holds and fires its stop event; onstop, if stop() has set it, resolves
\* the promise with new Blob(this.recordedChunks)
Finished(id, size) ==
  /\ recorders[id].pc = "flushing"
  /\ recorders' = [recorders EXCEPT ![id].delivered = Append(@, NextChunk(id, size)),
                                    ![id].pc = "done"]
  /\ ondataavailable(NextChunk(id, size))
  /\ LET p == recorders[id].handlers
     IN IF p # 0 /\ promises[p].state = "pending"
        THEN promises' = [promises EXCEPT ![p] = Promise(@.of, "resolved", recordedChunks')]
        ELSE UNCHANGED promises
  /\ UNCHANGED <<mediaRecorder, stream, tracks>>

\* a recording MediaRecorder fails: it is inactive, fires its error event
\* (onerror, if stop() has set it, rejects the promise), delivers the data
\* it holds and fires its stop event
RecorderError(id, size) ==
  /\ recorders[id].pc = "running"
  /\ recorders' = [recorders EXCEPT ![id].state = "inactive",
                                    ![id].delivered = Append(@, NextChunk(id, size)),
                                    ![id].pc = "done"]
  /\ ondataavailable(NextChunk(id, size))
  /\ LET p == recorders[id].handlers
     IN IF p # 0 /\ promises[p].state = "pending"
        THEN promises' = [promises EXCEPT ![p] = Promise(@.of, "rejected", ErrRecording)]
        ELSE UNCHANGED promises
  /\ UNCHANGED <<mediaRecorder, stream, tracks>>

\* the owner of the canvas stream stops its tracks: every MediaRecorder
\* recording from it stops
TracksEnded ==
  /\ tracks = "live"
  /\ tracks' = "ended"
  /\ recorders' = [id \in DOMAIN recorders |->
                     IF recorders[id].pc = "running"
                     THEN [recorders[id] EXCEPT !.state = "inactive", !.pc = "flushing"]
                     ELSE recorders[id]]
  /\ UNCHANGED <<mediaRecorder, recordedChunks, stream, promises>>

InitVideoRecorder ==
  /\ TimerIdle
  /\ Constructed
  /\ frame = NoFrame
  /\ result = NoResult
  /\ options = [stabilityFrames |-> Absent, gracePeriodFrames |-> Absent,
                enableDetection |-> FALSE]
  /\ mounted = TRUE
  /\ initPc = "off"
  /\ landmarker = "none"
  /\ poseLandmarkerRef = "null"
  /\ isReady = FALSE
  /\ isProcessing = FALSE
  /\ error = NoError
  /\ detectionResult = NoResult
  /\ plankDetectedCountRef = 0
  /\ plankLostCountRef = 0
  /\ isPlankActiveRef = FALSE
  /\ sinceLastDetection = 0
  /\ outcome = "constructed"
  /\ fired = <<>>
  /\ lastEvent = "none"
  /\ passRun = 0
  /\ failRun = 0
  /\ fresh = [gate |-> InitialGate, fired |-> <<>>, resetFromActive |-> FALSE]

othersVars == <<hookVars, classifierVars, componentVars>>

NextVideoRecorder ==
  \/ \E how \in StartOutcomes : start(how) /\ UNCHANGED othersVars
  \/ \E inactiveThrows \in BOOLEAN : stop(inactiveThrows) /\ UNCHANGED othersVars
  \/ \E id \in DOMAIN recorders, size \in ChunkSizes :
        DataAvailable(id, size) /\ UNCHANGED othersVars
  \/ \E id \in DOMAIN recorders, size \in ChunkSizes :
        Finished(id, size) /\ UNCHANGED othersVars
  \/ \E id \in DOMAIN recorders, size \in ChunkSizes :
        RecorderError(id, size) /\ UNCHANGED othersVars
  \/ TracksEnded /\ UNCHANGED othersVars

SpecVideoRecorder == InitVideoRecorder /\ [][NextVideoRecorder]_vars

(***************************************************************************)
(* PlankTimer with the VideoRecorder component and the hook it mounts.     *)
(* A step is one handler, timer, promise or animation-frame callback       *)
(* together with the render and the effects it causes.  Calls of           *)
(* detectPose that return at the guard or at the throttle change nothing   *)
(* and are not drawn.                                                      *)
(***************************************************************************)
\* the thresholds the component passes to usePoseDetection
RecorderStabilityFrames == 5
RecorderGracePeriodFrames == 30

ErrSaveVideo == "Failed to save video"
ErrCamera == "Failed to access camera"

\* handleStop passing a text to onError
CancelMessage_Text == "Recording stopped"

\* onError('') of handleStop
CancelMessage == ""

\* {errorMessage && (...)}: null and the empty string show nothing
MessageDisplayed == errorMessage \notin {NoMessage, ""}

\* the component renders its canvas and controls (not the error screen)
ControlsVisible == error = NoError

\* the component's state as a record
This ==
  [phase |-> phase, countdown |-> countdown, elapsedTime |-> elapsedTime,
   videoBlob |-> videoBlob, isRestarting |-> isRestarting,
   finalFrameData |-> finalFrameData, streamRef |-> streamRef,
   recorderRef |-> recorderRef, animationFrameRef |-> animationFrameRef,
   detectionFrameRef |-> detectionFrameRef, sinceStartTime |-> sinceStartTime,
   cameraPc |-> cameraPc, pendingStops |-> pendingStops, effects |-> {}]

\* the component's state becomes next
Becomes(next) ==
  \E c \in {next} :
    /\ phase' = c.phase
    /\ countdown' = c.countdown
    /\ elapsedTime' = c.elapsedTime
    /\ videoBlob' = c.videoBlob
    /\ isRestarting' = c.isRestarting
    /\ finalFrameData' = c.finalFrameData
    /\ streamRef' = c.streamRef
    /\ recorderRef' = c.recorderRef
    /\ animationFrameRef' = c.animationFrameRef
    /\ detectionFrameRef' = c.detectionFrameRef
    /\ sinceStartTime' = c.sinceStartTime
    /\ cameraPc' = c.cameraPc
    /\ pendingStops' = c.pendingStops
    /\ effects' = c.effects

\* the render effect with phase 'recording': a Recorder is constructed and
\* started and startTimeRef is set, whatever the refs held
StartsRecorder(c) ==
  [c EXCEPT !.recorderRef = "recording",
            !.sinceStartTime = 0,
            !.effects = @ \cup {"newRecorder", "setStartTime"}]

\* the detection loop effect without its check of the phase
DetectionLoopEffect_AnyPhase(c, visible) ==
  [c EXCEPT !.detectionFrameRef = visible /\ detectionMode]

\* the pose detection loop effect, run because phase changed
DetectionLoopEffect(c, visible) ==
  [c EXCEPT !.detectionFrameRef =
              visible /\ detectionMode /\ c.phase \in {"detecting", "recording"}]

\* the render effect, run because phase or detectionResult changed: in
\* phase 'recording' it starts a recorder, then drawFrame runs once
\* (setElapsedTime while recording) and schedules itself
RenderEffect(c, visible) ==
  IF ~visible \/ c.phase \in {"preparing", "completed", "preview"}
  THEN [c EXCEPT !.animationFrameRef = FALSE]
  ELSE LET r == IF c.phase = "recording"
                THEN [StartsRecorder(c) EXCEPT !.elapsedTime = 0]
                ELSE c
       IN [r EXCEPT !.animationFrameRef = TRUE]

\* the effects that run in the commit that takes the component to c
EffectsAfter(c, resultChanged, visible) ==
  LET phaseChanged == c.phase # phase
      d == IF phaseChanged THEN DetectionLoopEffect(c, visible) ELSE c
  IN IF phaseChanged \/ resultChanged THEN RenderEffect(d, visible) ELSE d

\* stopRecording without the await of recorder.stop()
stopRecording_NeverStops(c) ==
  LET e == IF c.sinceStartTime # NoStartTime
           THEN [c EXCEPT !.elapsedTime = c.sinceStartTime] ELSE c
  IN [e EXCEPT !.animationFrameRef = FALSE,
               !.detectionFrameRef = FALSE,
               !.effects = @ \cup {"cancelRender", "cancelDetection"}]

\* stopRecording up to its await: the final elapsed time is stored, both
\* loops are cancelled and, if the referenced recorder is recording, its
\* stop() is called and awaited
stopRecording(c) ==
  LET e == IF c.sinceStartTime # NoStartTime
           THEN [c EXCEPT !.elapsedTime = c.sinceStartTime] ELSE c
      f == [e EXCEPT !.animationFrameRef = FALSE,
                     !.detectionFrameRef = FALSE,
                     !.effects = @ \cup {"cancelRender", "cancelDetection"}]
  IN IF f.recorderRef = "recording"
     THEN [f EXCEPT !.recorderRef = "inactive",
                    !.pendingStops = @ + 1,
                    !.effects = @ \cup {"stop"}]
     ELSE f

\* setPhase(prevPhase => prevPhase === 'detecting' ? 'countdown' : prevPhase)
handlePlankDetected(c) ==
  IF c.phase = "detecting" THEN [c EXCEPT !.phase = "countdown"] ELSE c

\* the updater of handlePlankLost
handlePlankLost(c, visible) ==
  IF c.phase = "recording"
  THEN stopRecording([c EXCEPT !.finalFrameData = IF visible THEN "png" ELSE @])
  ELSE c

\* the component as constructed by a mount
Mounted ==
  [phase |-> "preparing", countdown |-> InitialCountdown, elapsedTime |-> 0,
   videoBlob |-> NoBlob, isRestarting |-> FALSE,
   finalFrameData |-> NoFinalFrame, streamRef |-> "null",
   recorderRef |-> "null", animationFrameRef |-> FALSE,
   detectionFrameRef |-> FALSE, sinceStartTime |-> NoStartTime,
   cameraPc |-> "awaitStream", pendingStops |-> 0, effects |-> {}]

\* the component is unmounted: the cleanups cancel the loops, stop the
\* stream and stop a referenced recorder that is recording; the promises
\* its stopRecording calls await stay pending
Unmounts(did) ==
  Becomes([Mounted EXCEPT
             !.cameraPc = "off",
             !.effects = did \cup {"cancelRender", "cancelDetection", "stopStream"}
                         \cup (IF recorderRef = "recording" THEN {"stop"} ELSE {})])

\* the hook's part of a step of the component: reset() if resets, the
\* cleanup of the initialisation effect if unmounts
HookStep(what, resets, unmounts) ==
  /\ outcome' = what
  /\ fired' = <<>>
  /\ frame' = NoFrame
  /\ IF resets
     THEN /\ plankDetectedCountRef' = 0
          /\ plankLostCountRef' = 0
          /\ isPlankActiveRef' = FALSE
          /\ detectionResult' = NoResult
          /\ error' = NoError
          /\ lastEvent' = "none"
          /\ passRun' = 0
          /\ failRun' = 0
          /\ fresh' = [gate |-> InitialGate, fired |-> <<>>,
                       resetFromActive |-> isPlankActiveRef]
     ELSE /\ fresh' = [fresh EXCEPT !.fired = <<>>]
          /\ UNCHANGED <<gateVars, detectionResult, error, runVars>>
  /\ IF unmounts /\ options.enableDetection
     THEN /\ mounted' = FALSE
          /\ IF poseLandmarkerRef = "set"
             THEN landmarker' = "closed" /\ poseLandmarkerRef' = "null"
             ELSE UNCHANGED <<landmarker, poseLandmarkerRef>>
     ELSE UNCHANGED <<mounted, landmarker, poseLandmarkerRef>>
  /\ UNCHANGED <<options, initPc, isReady, isProcessing, sinceLastDetection, result>>

\* the checkbox of the idle screen
toggleDetectionMode ==
  /\ appState = "idle"
  /\ detectionMode' = ~detectionMode
  /\ HookStep("toggleDetectionMode", FALSE, FALSE)
  /\ UNCHANGED <<appState, errorMessage, recorderVars>>

\* handleStart, and the mount of VideoRecorder with its hook
handleStart ==
  /\ appState = "idle"
  /\ staleStops < MaxCarriedStops
  /\ appState' = "recording"
  /\ errorMessage' = NoMessage
  /\ Becomes(Mounted)
  /\ options' = [stabilityFrames |-> <<RecorderStabilityFrames>>,
                 gracePeriodFrames |-> <<RecorderGracePeriodFrames>>,
                 enableDetection |-> detectionMode]
  /\ mounted' = TRUE
  /\ initPc' = IF detectionMode THEN "awaitVision" ELSE "off"
  /\ landmarker' = "none"
  /\ poseLandmarkerRef' = "null"
  /\ isReady' = FALSE
  /\ isProcessing' = detectionMode
  /\ error' = NoError
  /\ detectionResult' = NoResult
  /\ plankDetectedCountRef' = 0
  /\ plankLostCountRef' = 0
  /\ isPlankActiveRef' = FALSE
  /\ sinceLastDetection' = 0
  /\ outcome' = "handleStart"
  /\ fired' = <<>>
  /\ lastEvent' = "none"
  /\ passRun' = 0
  /\ failRun' = 0
  /\ fresh' = [gate |-> InitialGate, fired |-> <<>>, resetFromActive |-> FALSE]
  /\ frame' = NoFrame
  /\ UNCHANGED <<detectionMode, staleStops, result>>

\* handleError without setAppState('idle')
handleError_StaysRecording(message, what, resets, did) ==
  /\ errorMessage' = message
  /\ appState' = appState
  /\ Becomes([This EXCEPT !.pendingStops = 0, !.effects = did])
  /\ HookStep(what, resets, FALSE)
  /\ UNCHANGED detectionMode

\* handleError of PlankTimer, called through onError
handleError(message, what, resets, did) ==
  /\ errorMessage' = message
  /\ appState' = "idle"
  /\ Unmounts(did)
  /\ HookStep(what, resets, appState = "recording")
  /\ UNCHANGED detectionMode

\* getCameraStream resolves
StreamOpened ==
  /\ appState = "recording"
  /\ cameraPc = "awaitStream"
  /\ Becomes([This EXCEPT !.streamRef = "live", !.cameraPc = "awaitMetadata"])
  /\ HookStep("streamOpened", FALSE, FALSE)
  /\ UNCHANGED <<timerVars, staleStops>>

\* getCameraStream rejects: the catch block of setupCamera
CameraFailed ==
  /\ appState = "recording"
  /\ cameraPc = "awaitStream"
  /\ handleError(ErrCamera, "cameraFailed", FALSE, {})
  /\ staleStops' = staleStops + pendingStops

\* onloadedmetadata: setPhase(detectionMode ? 'detecting' : 'countdown')
CameraReady ==
  /\ appState = "recording"
  /\ cameraPc = "awaitMetadata"
  /\ Becomes(EffectsAfter([This EXCEPT
                             !.phase = IF detectionMode THEN "detecting" ELSE "countdown",
                             !.cameraPc = "done"],
                          FALSE, ControlsVisible))
  /\ HookStep("cameraReady", FALSE, FALSE)
  /\ UNCHANGED <<timerVars, staleStops>>

\* a tick of the countdown interval
CountdownTick ==
  /\ appState = "recording"
  /\ phase = "countdown"
  /\ Becomes(IF countdown <= 1
             THEN EffectsAfter([This EXCEPT !.phase = "recording", !.countdown = 0],
                               FALSE, ControlsVisible)
             ELSE [This EXCEPT !.countdown = countdown - 1])
  /\ HookStep("countdownTick", FALSE, FALSE)
  /\ UNCHANGED <<timerVars, staleStops>>

\* runDetection: detectPose processes a video frame, the callbacks it
\* invokes run, and the effects depending on detectionResult and phase follow
runDetection(estimate, landmarks) ==
  /\ appState = "recording"
  /\ detectionFrameRef
  /\ poseLandmarkerRef = "set" /\ isReady
  /\ plankDetectedCountRef < MaxFrames
  /\ plankLostCountRef < MaxFrames
  /\ CASE estimate = "throws" -> Caught
       [] estimate = "noLandmarks" ->
            /\ frame' = NoFrame
            /\ Processed("noPerson", NoPersonResult, FALSE,
                         OnNoPerson(CurrentGate, gracePeriodFrames))
       [] estimate = "landmarks" ->
            LET plankResult == detectPlankPosition(landmarks)
            IN IF plankResult.threw THEN Caught
               ELSE /\ frame' = landmarks
                    /\ Processed("classified", AsResult(plankResult),
                                 plankResult.isPlank,
                                 IF plankResult.isPlank
                                 THEN OnPlankFrame(CurrentGate, stabilityFrames)
                                 ELSE OnNotPlankFrame(CurrentGate, gracePeriodFrames))
  /\ LET called == IF fired' = <<OnPlankDetected>> THEN handlePlankDetected(This)
                   ELSE IF fired' = <<OnPlankLost>>
                   THEN handlePlankLost(This, ControlsVisible)
                   ELSE This
     IN Becomes(EffectsAfter(called, outcome' # "error", error' = NoError))
  /\ UNCHANGED <<timerVars, staleStops>>

\* Second with drawFrame stopping at the target duration in either mode
Second_IgnoresMode ==
  /\ appState = "recording"
  /\ phase = "recording"
  /\ sinceStartTime # NoStartTime
  /\ sinceStartTime < MaxSeconds
  /\ LET t == [This EXCEPT !.sinceStartTime = sinceStartTime + 1]
         shown == [t EXCEPT !.elapsedTime = t.sinceStartTime]
     IN Becomes(IF ~animationFrameRef THEN t
                ELSE IF shown.elapsedTime >= TargetDuration
                THEN stopRecording([shown EXCEPT !.finalFrameData = "png"])
                ELSE shown)
  /\ HookStep("second", FALSE, FALSE)
  /\ UNCHANGED <<timerVars, staleStops>>

\* a second passes while recording; a running drawFrame shows the elapsed
\* time and, in manual mode, stops the recording at the target duration
Second ==
  /\ appState = "recording"
  /\ phase = "recording"
  /\ sinceStartTime # NoStartTime
  /\ sinceStartTime < MaxSeconds
  /\ LET t == [This EXCEPT !.sinceStartTime = sinceStartTime + 1]
         shown == [t EXCEPT !.elapsedTime = t.sinceStartTime]
     IN Becomes(IF ~animationFrameRef THEN t
                ELSE IF shown.elapsedTime >= TargetDuration /\ ~detectionMode
                THEN stopRecording([shown EXCEPT !.finalFrameData = "png"])
                ELSE shown)
  /\ HookStep("second", FALSE, FALSE)
  /\ UNCHANGED <<timerVars, staleStops>>

\* a stop() awaited by this mount's stopRecording resolves:
\* setVideoBlob(blob); setPhase('preview')
StopResolved ==
  /\ pendingStops > 0
  /\ Becomes(EffectsAfter([This EXCEPT !.pendingStops = @ - 1,
                                       !.videoBlob = "blob",
                                       !.phase = "preview"],
                          FALSE, ControlsVisible))
  /\ HookStep("stopResolved", FALSE, FALSE)
  /\ UNCHANGED <<timerVars, staleStops>>

\* it rejects: setError and onError('Failed to save video')
StopRejected ==
  /\ pendingStops > 0
  /\ handleError(ErrSaveVideo, "stopRejected", FALSE, {})
  /\ staleStops' = staleStops + pendingStops - 1

\* a stop() awaited by an earlier mount resolves: its setters find no component
StaleStopResolved ==
  /\ staleStops > 0
  /\ staleStops' = staleStops - 1
  /\ effects' = {}
  /\ HookStep("staleStopResolved", FALSE, FALSE)
  /\ UNCHANGED <<timerVars, phase, countdown, elapsedTime, videoBlob, isRestarting,
                 finalFrameData, streamRef, recorderRef, animationFrameRef,
                 detectionFrameRef, sinceStartTime, cameraPc, pendingStops>>

\* it rejects: onError still reaches PlankTimer
StaleStopRejected ==
  /\ staleStops > 0
  /\ handleError(ErrSaveVideo, "staleStopRejected", FALSE, {})
  /\ staleStops' = staleStops - 1 + pendingStops

\* the Stop button
handleStop ==
  /\ appState = "recording"
  /\ ControlsVisible
  /\ phase \in {"countdown", "detecting", "recording"}
  /\ ~isRestarting
  /\ CASE phase = "detecting" ->
            /\ handleError(CancelMessage, "stopBeforeRecording", TRUE, {"resetPose"})
            /\ staleStops' = staleStops + pendingStops
       [] phase = "countdown" ->
            /\ handleError(CancelMessage, "stopBeforeRecording", detectionMode,
                           IF detectionMode THEN {"resetPose"} ELSE {})
            /\ staleStops' = staleStops + pendingStops
       [] phase = "recording" ->
            /\ Becomes(stopRecording([This EXCEPT !.isRestarting = TRUE,
                                                  !.finalFrameData = "png"]))
            /\ HookStep("stopRecording", FALSE, FALSE)
            /\ UNCHANGED <<timerVars, staleStops>>

\* the 500 ms timer of handleStop: setIsRestarting(false)
DebounceElapsed ==
  /\ appState = "recording"
  /\ isRestarting
  /\ Becomes([This EXCEPT !.isRestarting = FALSE])
  /\ HookStep("debounceElapsed", FALSE, FALSE)
  /\ UNCHANGED <<timerVars, staleStops>>

\* Download Video of the preview screen: setPhase('completed'), the stream
\* is stopped and onComplete(elapsedTime) reaches handleComplete
handleDownloadVideo ==
  /\ appState = "recording"
  /\ ControlsVisible
  /\ phase = "preview"
  /\ videoBlob # NoBlob
  /\ appState' = "completed"
  /\ Unmounts({"download"})
  /\ staleStops' = staleStops + pendingStops
  /\ HookStep("handleDownloadVideo", FALSE, TRUE)
  /\ UNCHANGED <<errorMessage, detectionMode>>

\* handleRecordAnother without resetPoseDetection()
handleRecordAnother_NoReset ==
  /\ appState = "recording"
  /\ ControlsVisible
  /\ phase = "preview"
  /\ pendingStops < MaxCarriedStops
  /\ Becomes(EffectsAfter(
       [This EXCEPT !.phase = IF detectionMode THEN "detecting" ELSE "countdown",
                    !.countdown = InitialCountdown,
                    !.elapsedTime = 0,
                    !.videoBlob = NoBlob,
                    !.finalFrameData = NoFinalFrame],
       FALSE, ControlsVisible))
  /\ HookStep("handleRecordAnother", FALSE, FALSE)
  /\ UNCHANGED <<timerVars, staleStops>>

\* handleRecordAnother going to 'countdown' in detection mode too
handleRecordAnother_SkipsDetecting ==
  /\ appState = "recording"
  /\ ControlsVisible
  /\ phase = "preview"
  /\ pendingStops < MaxCarriedStops
  /\ Becomes(EffectsAfter(
       [This EXCEPT !.phase = "countdown",
                    !.countdown = InitialCountdown,
                    !.elapsedTime = 0,
                    !.videoBlob = NoBlob,
                    !.finalFrameData = NoFinalFrame,
                    !.effects = IF detectionMode THEN {"resetPose"} ELSE {}],
       detectionMode /\ detectionResult # NoResult, ControlsVisible))
  /\ HookStep("handleRecordAnother", detectionMode, FALSE)
  /\ UNCHANGED <<timerVars, staleStops>>

\* Record Another of the preview screen
handleRecordAnother ==
  /\ appState = "recording"
  /\ ControlsVisible
  /\ phase = "preview"
  /\ pendingStops < MaxCarriedStops
  /\ Becomes(EffectsAfter(
       [This EXCEPT !.phase = IF detectionMode THEN "detecting" ELSE "countdown",
                    !.countdown = InitialCountdown,
                    !.elapsedTime = 0,
                    !.videoBlob = NoBlob,
                    !.finalFrameData = NoFinalFrame,
                    !.effects = IF detectionMode THEN {"resetPose"} ELSE {}],
       detectionMode /\ detectionResult # NoResult, ControlsVisible))
  /\ HookStep("handleRecordAnother", detectionMode, FALSE)
  /\ UNCHANGED <<timerVars, staleStops>>

\* handleReset also clearing detectionMode
handleReset_ClearsDetectionMode ==
  /\ appState = "completed"
  /\ appState' = "idle"
  /\ errorMessage' = NoMessage
  /\ detectionMode' = FALSE
  /\ HookStep("handleReset", FALSE, FALSE)
  /\ effects' = {}
  /\ UNCHANGED <<phase, countdown, elapsedTime, videoBlob, isRestarting,
                 finalFrameData, streamRef, recorderRef, animationFrameRef,
                 detectionFrameRef, sinceStartTime, cameraPc, pendingStops, staleStops>>

\* Record Another of the completed screen: handleReset
handleReset ==
  /\ appState = "completed"
  /\ appState' = "idle"
  /\ errorMessage' = NoMessage
  /\ HookStep("handleReset", FALSE, FALSE)
  /\ effects' = {}
  /\ UNCHANGED <<detectionMode, phase, countdown, elapsedTime, videoBlob, isRestarting,
                 finalFrameData, streamRef, recorderRef, animationFrameRef,
                 detectionFrameRef, sinceStartTime, cameraPc, pendingStops, staleStops>>

InitRecorder ==
  /\ TimerIdle
  /\ Constructed
  /\ frame = NoFrame
  /\ result = NoResult
  /\ options = [stabilityFrames |-> <<RecorderStabilityFrames>>,
                gracePeriodFrames |-> <<RecorderGracePeriodFrames>>,
                enableDetection |-> FALSE]
  /\ mounted = TRUE
  /\ initPc = "off"
  /\ landmarker = "none"
  /\ poseLandmarkerRef = "null"
  /\ isReady = FALSE
  /\ isProcessing = FALSE
  /\ error = NoError
  /\ detectionResult = NoResult
  /\ plankDetectedCountRef = 0
  /\ plankLostCountRef = 0
  /\ isPlankActiveRef = FALSE
  /\ sinceLastDetection = 0
  /\ outcome = "constructed"
  /\ fired = <<>>
  /\ lastEvent = "none"
  /\ passRun = 0
  /\ failRun = 0
  /\ fresh = [gate |-> InitialGate, fired |-> <<>>, resetFromActive |-> FALSE]

\* the steps of the hook's initialisation while the component is mounted
HookInitStep ==
  /\ appState = "recording"
  /\ VisionLoaded \/ LandmarkerCreated \/ InitFailed
  /\ effects' = {}
  /\ UNCHANGED <<timerVars, phase, countdown, elapsedTime, videoBlob, isRestarting,
                 finalFrameData, streamRef, recorderRef, animationFrameRef,
                 detectionFrameRef, sinceStartTime, cameraPc, pendingStops, staleStops>>

NextRecorder ==
  \/ toggleDetectionMode /\ UNCHANGED instanceVars
  \/ handleStart /\ UNCHANGED instanceVars
  \/ HookInitStep /\ UNCHANGED instanceVars
  \/ StreamOpened /\ UNCHANGED instanceVars
  \/ CameraFailed /\ UNCHANGED instanceVars
  \/ CameraReady /\ UNCHANGED instanceVars
  \/ CountdownTick /\ UNCHANGED instanceVars
  \/ \E estimate \in EstimatorOutcomes :
        \E landmarks \in LandmarksOf(estimate) : runDetection(estimate, landmarks)
             /\ UNCHANGED instanceVars
  \/ Second /\ UNCHANGED instanceVars
  \/ StopResolved /\ UNCHANGED instanceVars
  \/ StopRejected /\ UNCHANGED instanceVars
  \/ StaleStopResolved /\ UNCHANGED instanceVars
  \/ StaleStopRejected /\ UNCHANGED instanceVars
  \/ handleStop /\ UNCHANGED instanceVars
  \/ DebounceElapsed /\ UNCHANGED instanceVars
  \/ handleDownloadVideo /\ UNCHANGED instanceVars
  \/ handleRecordAnother /\ UNCHANGED instanceVars
  \/ handleReset /\ UNCHANGED instanceVars

SpecRecorder == InitRecorder /\ [][NextRecorder]_vars

\* every recorder.stop() awaited settles
FairSpecRecorder ==
  /\ SpecRecorder
  /\ WF_vars((StopResolved \/ StopRejected) /\ UNCHANGED instanceVars)

(***************************************************************************)
(* Properties of the stability gate (checked under Spec).                  *)
(***************************************************************************)
\* the last call processed a frame: it reached the gate
ProcessedKinds == {"noPerson", "classified"}

\* C1: acquisition debounce.  With a threshold of at least one frame, a
\* processed frame invokes onPlankDetected exactly when it is the
\* stabilityFrames-th consecutive passing frame of a run that began on an
\* inactive gate: no frame of the run before it invokes the callback, that
\* frame invokes it once and nothing else, and no later frame of the run
\* invokes it again.
C1_AcquisitionDebounce ==
  [][(stabilityFrames >= 1 /\ outcome' \in ProcessedKinds) =>
       /\ (passRun' < stabilityFrames => fired' # <<OnPlankDetected>>)
       /\ (~isPlankActiveRef /\ passRun' = stabilityFrames
             => fired' = <<OnPlankDetected>> /\ isPlankActiveRef')
       /\ (passRun' > stabilityFrames => fired' = <<>>)
       /\ (fired' = <<OnPlankDetected>>
             => ~isPlankActiveRef /\ passRun' = stabilityFrames)]_vars

\* the fifth consecutive passing frame under the default threshold fired
C1_Witness ==
  /\ options.stabilityFrames = Absent
  /\ outcome = "classified"
  /\ fired = <<OnPlankDetected>>
  /\ passRun = DefaultStabilityFrames
  /\ isPlankActiveRef

\* C2: loss with grace period.  With a grace period of at least one frame,
\* on an active gate a failing frame that is not yet the
\* gracePeriodFrames-th of its run invokes nothing and leaves the gate
\* active; the gracePeriodFrames-th makes the gate inactive and invokes
\* onPlankLost once; onPlankLost is invoked by no other frame, so further
\* failing frames invoke nothing.
C2_LossWithGracePeriod ==
  [][(gracePeriodFrames >= 1 /\ outcome' \in ProcessedKinds) =>
       /\ (isPlankActiveRef /\ failRun' >= 1 /\ failRun' < gracePeriodFrames
             => fired' = <<>> /\ isPlankActiveRef')
       /\ (isPlankActiveRef /\ failRun' = gracePeriodFrames
             => fired' = <<OnPlankLost>> /\ ~isPlankActiveRef')
       /\ (failRun' > gracePeriodFrames => fired' = <<>>)
       /\ (fired' = <<OnPlankLost>>
             => isPlankActiveRef /\ failRun' = gracePeriodFrames)]_vars

\* the tenth consecutive failing frame under the default grace period fired
C2_Witness ==
  /\ options.gracePeriodFrames = Absent
  /\ fired = <<OnPlankLost>>
  /\ failRun = DefaultGracePeriodFrames
  /\ ~isPlankActiveRef

\* C3: a passing frame inside the grace window (gate active, fail counter
\* between 1 and gracePeriodFrames - 1) sets the fail counter to 0, keeps
\* the gate active and invokes no callback; the run of failing frames
\* counted towards the next loss restarts from zero.
C3_PassInsideGraceWindow ==
  [][(/\ outcome' = "classified"
      /\ detectionResult'.isPlank
      /\ isPlankActiveRef
      /\ plankLostCountRef >= 1
      /\ plankLostCountRef <= gracePeriodFrames - 1)
     => /\ plankLostCountRef' = 0
        /\ failRun' = 0
        /\ isPlankActiveRef'
        /\ fired' = <<>>]_vars

\* a first passing frame arrived on a gate that was already active, that is
\* after a run of failing frames shorter than the grace period
C3_Witness ==
  /\ outcome = "classified"
  /\ detectionResult.isPlank
  /\ isPlankActiveRef
  /\ passRun = 1
  /\ plankLostCountRef = 0
  /\ lastEvent = OnPlankDetected
  /\ stabilityFrames > 1

\* C4: edge-triggered events.  A call invokes at most one callback; between
\* resets the callbacks alternate, beginning with onPlankDetected; a
\* processed frame invokes onPlankDetected exactly when it turns the gate
\* from inactive to active and onPlankLost exactly when it turns it from
\* active to inactive.
C4_EdgeTriggered ==
  [][/\ Len(fired') <= 1
     /\ (fired' # <<>> =>
           /\ fired'[1] # lastEvent
           /\ (lastEvent = "none" => fired'[1] = OnPlankDetected))
     /\ (outcome' # "reset" =>
           /\ (~isPlankActiveRef /\ isPlankActiveRef') <=> (fired' = <<OnPlankDetected>>)
           /\ (isPlankActiveRef /\ ~isPlankActiveRef') <=> (fired' = <<OnPlankLost>>))]_vars

\* a frame turned the gate inactive and invoked onPlankLost, the previous
\* callback since the last reset having been the acquisition
C4_Witness ==
  /\ outcome = "classified"
  /\ fired = <<OnPlankLost>>
  /\ lastEvent = OnPlankLost
  /\ ~isPlankActiveRef
  /\ options.gracePeriodFrames = <<MaxThreshold>>


\* C5: reset, from any gate state, sets both counters to 0 and the gate
\* inactive and invokes no callback; on a gate already in its initial state
\* it leaves the gate as it is, and a second reset in a row changes nothing
\* of the hook's state.
C5_Reset ==
  [][outcome' = "reset" =>
       /\ plankDetectedCountRef' = 0
       /\ plankLostCountRef' = 0
       /\ isPlankActiveRef' = FALSE
       /\ fired' = <<>>
       /\ (CurrentGate = InitialGate => CurrentGate' = CurrentGate)
       /\ (outcome = "reset" =>
             UNCHANGED <<lifecycleVars, gateVars, detectionResult, error,
                         sinceLastDetection, fired>>)]_vars

\* reset was called on an active gate
C5_Witness ==
  /\ outcome = "reset"
  /\ fresh.resetFromActive
  /\ CurrentGate = InitialGate

\* C6: a gate that has been reset behaves like a newly constructed one: in
\* every state the refs equal those of a new gate with the same thresholds
\* that was fed the frames processed since the last reset, and every
\* processed frame invokes the callbacks that gate invokes.
C6_ResetIsFresh ==
  /\ CurrentGate = fresh.gate
  /\ (outcome \in ProcessedKinds => fired = fresh.fired)

\* after a reset of an active gate, the stabilityFrames-th passing frame
\* acquired the position again
C6_Witness ==
  /\ fresh.resetFromActive
  /\ fired = <<OnPlankDetected>>
  /\ passRun = stabilityFrames
  /\ stabilityFrames >= 2

\* C7: a frame without landmarks is a failing frame, not an error: the
\* result reported is isPlank = false, confidence 0 and the no-person
\* feedback, the error state is untouched, and the gate makes the
\* transition of a frame classified not-plank (fail counter + 1, pass
\* counter 0, onPlankLost iff the gate is active and the fail counter has
\* reached gracePeriodFrames).
C7_NoPersonIsFailingFrame ==
  [][outcome' = "noPerson" =>
       /\ detectionResult' =
            [isPlank |-> FALSE, confidence |-> 0, feedback |-> <<MsgNoPerson>>]
       /\ error' = error
       /\ CurrentGate' = OnNotPlankFrame(CurrentGate, gracePeriodFrames).gate
       /\ fired' = OnNotPlankFrame(CurrentGate, gracePeriodFrames).fired
       /\ plankLostCountRef' = plankLostCountRef + 1
       /\ plankDetectedCountRef' = 0
       /\ (fired' = <<OnPlankLost>>
             <=> isPlankActiveRef /\ plankLostCountRef' >= gracePeriodFrames)]_vars

\* a frame without landmarks ended the grace period of an active gate
C7_Witness ==
  /\ outcome = "noPerson"
  /\ fired = <<OnPlankLost>>
  /\ plankLostCountRef = gracePeriodFrames
  /\ gracePeriodFrames >= 2

\* C8: at least one of the two counters is 0 in every reachable state, and
\* every processed frame adds 1 to one of them and sets the other to 0.
C8_CountersExclusive ==
  /\ [](plankDetectedCountRef = 0 \/ plankLostCountRef = 0)
  /\ [][outcome' \in ProcessedKinds =>
          \/ /\ plankDetectedCountRef' = plankDetectedCountRef + 1
             /\ plankLostCountRef' = 0
          \/ /\ plankLostCountRef' = plankLostCountRef + 1
             /\ plankDetectedCountRef' = 0]_vars

\* a failing frame followed a run of passing frames, after an estimator error
C8_Witness ==
  /\ outcome = "classified"
  /\ plankLostCountRef = 1
  /\ plankDetectedCountRef = 0
  /\ isPlankActiveRef
  /\ error = ErrDetection

\* C9: with no thresholds supplied, onPlankDetected is invoked on the 5th
\* consecutive passing frame and onPlankLost not before the 30th
\* consecutive failing frame.
C9_DefaultThresholds ==
  (options.stabilityFrames = Absent /\ options.gracePeriodFrames = Absent) =>
     /\ (fired = <<OnPlankDetected>> => passRun = 5)
     /\ (fired = <<OnPlankLost>> => failRun >= 30)

\* C12: live feedback does not depend on the gate.  Every frame that
\* reaches the gate replaces detectionResult by the classification of that
\* frame alone: a frame without landmarks reports the no-person result and
\* a frame with landmarks reports what detectPlankPosition returns for it,
\* whatever the counters and isPlankActive are.
C12_LiveFeedback ==
  [][/\ (outcome' = "noPerson" => detectionResult' = NoPersonResult)
     /\ (outcome' = "classified" =>
           detectionResult' = AsResult(detectPlankPosition(frame')))]_vars

\* inside the grace window of an active gate a failing frame was reported
\* as failing, with its own confidence
C12_Witness ==
  /\ outcome = "classified"
  /\ isPlankActiveRef
  /\ plankLostCountRef >= 1
  /\ ~detectionResult.isPlank
  /\ detectionResult.confidence = detectPlankPosition(frame).confidence
  /\ detectionResult.confidence > 0

\* C17: an estimator failure is absorbed.  A call of detectPose in which
\* the estimator throws completes: it sets the error to 'Detection error
\* occurred', leaves both counters, isPlankActive and the reported result
\* as they were and invokes no callback; reset sets the error back to
\* null.
C17_EstimatorFailureAbsorbed ==
  [][/\ (outcome' = "error" =>
           /\ error' = ErrDetection
           /\ UNCHANGED <<gateVars, detectionResult>>
           /\ fired' = <<>>)
     /\ (outcome' = "reset" => error' = NoError)]_vars

\* the estimator threw inside the grace window of an active gate
C17_Witness ==
  /\ outcome = "error"
  /\ error = ErrDetection
  /\ isPlankActiveRef
  /\ plankLostCountRef >= 1
  /\ failRun = plankLostCountRef

\* C18: configuration errors fail fast.  A hook constructed with a
\* negative stabilityFrames or gracePeriodFrames never evaluates a frame
\* against that threshold and never invokes a callback.
C18_ConfigurationFailsFast ==
  (stabilityFrames < 0 \/ gracePeriodFrames < 0) =>
     /\ outcome \notin ProcessedKinds
     /\ fired = <<>>
     /\ ~isPlankActiveRef

\* C30: detection throttle.  A detectPose call made less than 66 ms after
\* the last call that went past the throttle is dropped: it leaves the
\* counters, isPlankActive, the reported result, the error and the time
\* of the last detection as they were (the estimator is not invoked) and
\* invokes no callback.  A call reaches the estimator only 66 ms or more
\* after the last one that did, and restarts the interval.
C30_DetectionThrottle ==
  [][/\ (outcome' = "throttled" =>
           /\ sinceLastDetection < ThrottleMs
           /\ UNCHANGED <<gateVars, detectionResult, error, sinceLastDetection>>
           /\ fired' = <<>>)
     /\ (outcome' \in ProcessedKinds \cup {"error"} =>
           /\ sinceLastDetection >= ThrottleMs
           /\ sinceLastDetection' = 0)]_vars

\* a call made 33 ms after a passing frame was dropped
C30_Witness ==
  /\ outcome = "throttled"
  /\ sinceLastDetection = 33
  /\ plankDetectedCountRef >= 1
  /\ detectionResult # NoResult

\* C31: detection runs only on a live estimator.  A call that reaches the
\* estimator finds a landmarker that was created by a completed
\* initialisation and is not closed; a call made with detection disabled,
\* before initialisation completes, after it failed, after the cleanup or
\* with a null video returns at the guard, leaving the gate, detectionResult
\* and error as they are and invoking no callback; isReady is true only
\* after a successful initialisation.
C31_LiveEstimatorOnly ==
  /\ [](isReady => (options.enableDetection /\ initPc = "done"))
  /\ [][/\ (outcome' \in ProcessedKinds \cup {"error", "throttled"} =>
              /\ options.enableDetection
              /\ initPc = "done"
              /\ poseLandmarkerRef = "set"
              /\ landmarker = "open")
        /\ (outcome' = "notReady" =>
              /\ UNCHANGED <<gateVars, detectionResult, error, lifecycleVars>>
              /\ fired' = <<>>)
        /\ \A estimate \in EstimatorOutcomes :
             \A landmarks \in LandmarksOf(estimate) :
               /\ detectPose("null", estimate, landmarks) => outcome' = "notReady"
               /\ (detectPose("video", estimate, landmarks)
                     /\ (~options.enableDetection \/ initPc # "done" \/ landmarker # "open"))
                    => outcome' = "notReady"]_vars

\* a call made after the cleanup closed the landmarker returned at the guard
C31_Witness ==
  /\ outcome = "notReady"
  /\ landmarker = "closed"
  /\ isReady
  /\ ~mounted

\* C32: the landmarker is closed on unmount.  Once the hook is unmounted
\* and its initialisation has run to its end, no landmarker it created is
\* left open, and no call reaches the estimator through a closed landmarker.
C32_LandmarkerClosedOnUnmount ==
  /\ []((~mounted /\ initPc \notin {"awaitVision", "awaitCreate"}) => landmarker # "open")
  /\ [][outcome' \in ProcessedKinds \cup {"error"} => landmarker = "open"]_vars

\* C34: with both thresholds at least 1, after every processed frame an
\* inactive gate has counted fewer passing frames than stabilityFrames and
\* an active gate fewer failing frames than gracePeriodFrames; an inactive
\* gate with a full passing run and an active gate with an expired grace
\* period are unreachable.
C34_GateNeverOverdue ==
  (stabilityFrames >= 1 /\ gracePeriodFrames >= 1) =>
    /\ ~isPlankActiveRef => plankDetectedCountRef < stabilityFrames
    /\ isPlankActiveRef => plankLostCountRef < gracePeriodFrames
    /\ outcome \in ProcessedKinds =>
         /\ ~isPlankActiveRef => passRun < stabilityFrames
         /\ isPlankActiveRef => failRun < gracePeriodFrames

\* an active gate one failing frame short of its grace period, right after
\* a frame without a person
C34_Witness ==
  /\ stabilityFrames >= 1
  /\ gracePeriodFrames >= 2
  /\ outcome = "noPerson"
  /\ isPlankActiveRef
  /\ plankLostCountRef = gracePeriodFrames - 1

(***************************************************************************)
(* Properties of the classifier (checked under SpecClassifier).            *)
(***************************************************************************)
Classified == result # NoResult /\ ~result.threw

\* the violation messages of a result: its feedback without the affirmation
ViolationCount(r) ==
  Cardinality({i \in 1 .. Len(r.feedback) : r.feedback[i] \notin Affirmations})

\* C10: verdict consistency.  For every classified frame isPlank is true
\* exactly when confidence >= 55 and there are at most 3 violation
\* messages; on a pass the feedback, affirmation included, has at most 4
\* entries.
C10_VerdictConsistency ==
  Classified =>
    /\ result.isPlank <=> (result.confidence >= 55 /\ ViolationCount(result) <= 3)
    /\ (result.isPlank => Len(result.feedback) <= 4)

\* a frame passed on the threshold with three violation messages
C10_Witness ==
  /\ Classified
  /\ result.isPlank
  /\ result.confidence = 55
  /\ ViolationCount(result) = 3
  /\ Len(result.feedback) = 4

\* the frame went past the visibility gate and every check was evaluated
Scored ==
  /\ Classified
  /\ areLandmarksVisible(frame, DefaultMinVisibility)

\* C11: confidence bounds.  The confidence of every classified frame lies
\* between 0 and 100.  For a frame that is scored, the confidence starts
\* at 100, no check raises it (every penalty is >= 0), and the value
\* returned is 100 minus the penalties applied, or 0 when the penalties
\* exceed 100.
C11_ConfidenceBounds ==
  /\ (Classified => result.confidence >= 0 /\ result.confidence <= 100)
  /\ (Scored =>
        LET checks == Checks(frame)
        IN /\ \A i \in 1 .. Len(checks) : checks[i].penalty >= 0
           /\ result.confidence =
                IF SumPenalties(checks) > 100 THEN 0
                ELSE 100 - SumPenalties(checks))

\* a frame whose penalties add up to more than 100 was given confidence 0
C11_Witness ==
  /\ Scored
  /\ SumPenalties(Checks(frame)) > 100
  /\ result.confidence = 0

\* the violation messages of a result, in order
RECURSIVE ViolationMessages(_)
ViolationMessages(feedback) ==
  IF Len(feedback) = 0 THEN <<>>
  ELSE IF Head(feedback) \in Affirmations THEN ViolationMessages(Tail(feedback))
  ELSE <<Head(feedback)>> \o ViolationMessages(Tail(feedback))

\* the checks of a frame that pushed a feedback string, and those that
\* lowered the confidence without pushing one
WithMessage(checks) == {i \in 1 .. Len(checks) : checks[i].feedback # <<>>}
Silent(checks) ==
  {i \in 1 .. Len(checks) : checks[i].penalty > 0 /\ checks[i].feedback = <<>>}

RECURSIVE SumOver(_, _)
SumOver(checks, idxs) ==
  IF idxs = {} THEN 0
  ELSE LET i == CHOOSE j \in idxs : TRUE
       IN checks[i].penalty + SumOver(checks, idxs \ {i})

\* C13 as stated: for every scored frame, every check that lowers the
\* confidence pushes exactly one feedback string, so a confidence below 100
\* comes with at least one violation message, and 100 minus the confidence
\* before clamping is the sum of the penalties of the checks that pushed a
\* message.
C13_EveryPenaltyHasMessage ==
  Scored =>
    LET checks == Checks(frame)
    IN /\ \A i \in 1 .. Len(checks) :
            checks[i].penalty > 0 => Len(checks[i].feedback) = 1
       /\ (result.confidence < 100 => ViolationCount(result) >= 1)
       /\ result.confidence = Max(0, 100 - SumOver(checks, WithMessage(checks)))

\* C13 amended: for every scored frame, every check pushes at most one
\* feedback string and each check that pushes one lowers the confidence;
\* the violation messages of the result are those strings in check order;
\* the only checks that lower the confidence without a message are the
\* head check and the leg check, in their middle tier, by 10 each; 100
\* minus the confidence before clamping is the sum of the penalties of the
\* checks that pushed a message plus 10 for each such silent tier.
C13_PenaltiesAndMessages ==
  Scored =>
    LET checks == Checks(frame)
    IN /\ \A i \in 1 .. Len(checks) :
            /\ Len(checks[i].feedback) <= 1
            /\ (checks[i].feedback # <<>> => checks[i].penalty > 0)
       /\ ViolationMessages(result.feedback) = CollectFeedback(checks)
       /\ ViolationCount(result) = Cardinality(WithMessage(checks))
       /\ \A i \in Silent(checks) : i \in {2, 6} /\ checks[i].penalty = 10
       /\ result.confidence =
            Max(0, 100 - SumOver(checks, WithMessage(checks))
                       - 10 * Cardinality(Silent(checks)))

\* a frame lost points to a check with a message, and to the silent tier
\* of both the head check and the leg check
C13_Witness ==
  /\ Scored
  /\ Silent(Checks(frame)) = {2, 6}
  /\ WithMessage(Checks(frame)) # {}
  /\ result.confidence > 0

\* C14: affirmation on pass.  A passing result has exactly one affirmation
\* string, at the head of its feedback, chosen by the confidence: the
\* perfect-form string from 85, the good-position string from 70, the
\* plank-detected string below; a failing result has no affirmation
\* string anywhere in its feedback.
C14_AffirmationOnPass ==
  Classified =>
    LET affirmations ==
          {i \in 1 .. Len(result.feedback) : result.feedback[i] \in Affirmations}
    IN IF result.isPlank
       THEN /\ affirmations = {1}
            /\ result.feedback[1] =
                 IF result.confidence >= 85 THEN MsgPerfect
                 ELSE IF result.confidence >= 70 THEN MsgGood
                 ELSE MsgDetected
       ELSE affirmations = {}

\* a frame passed in the lowest tier, the affirmation ahead of its
\* violation messages
C14_Witness ==
  /\ Classified
  /\ result.isPlank
  /\ result.confidence < 70
  /\ result.feedback[1] = MsgDetected
  /\ Len(result.feedback) >= 3

\* C22 as stated: some frame passes the visibility gate and has a
\* confidence of at least 55, and detectPlankPosition returns isPlank =
\* false for it because it carries more than 3 violation messages.
C22_CapChangesVerdict ==
  Classified =>
    \E f \in ClassifierFrames :
       /\ areLandmarksVisible(f, DefaultMinVisibility)
       /\ ~detectPlankPosition(f).threw
       /\ detectPlankPosition(f).confidence >= PassThreshold
       /\ ~detectPlankPosition(f).isPlank
       /\ ViolationCount(detectPlankPosition(f)) > MaxViolations

\* C22 amended: every check that pushes a message costs at least 15
\* points, so a scored frame with more than 3 violation messages has a
\* confidence of at most 40, and a scored frame passes exactly when its
\* confidence is at least 55: the cap on the messages never decides.
C22_CapNeverDecides ==
  Scored =>
    LET checks == Checks(frame)
    IN /\ \A i \in WithMessage(checks) : checks[i].penalty >= 15
       /\ (ViolationCount(result) > MaxViolations => result.confidence <= 40)
       /\ (result.isPlank <=> result.confidence >= PassThreshold)

\* a frame with four violation messages was rejected
C22_Witness ==
  /\ Scored
  /\ ViolationCount(result) = 4
  /\ result.confidence = 35
  /\ ~result.isPlank

\* the place of a violation message in the order body line, legs, arms,
\* head, frame centering, symmetry (0: the message has no place in it)
OrderRank(msg) ==
  CASE msg \in {MsgLevelBad, MsgLevelMild} -> 1
    [] msg = MsgLegs -> 2
    [] msg \in {MsgArms, MsgElbows} -> 3
    [] msg = MsgHead -> 4
    [] msg \in {MsgTooHigh, MsgTooLow} -> 6
    [] msg = MsgSymmetry -> 7
    [] OTHER -> 0

\* C23: feedback order.  The violation messages of a scored frame appear
\* in the order body-line alignment, leg straightness, arm support,
\* head/neck, frame centering, left-right symmetry; in particular the
\* leg-straightness message never follows an arm or head message.
C23_FeedbackOrder ==
  Scored =>
    LET msgs == ViolationMessages(result.feedback)
    IN \A i, j \in 1 .. Len(msgs) :
          (i < j /\ OrderRank(msgs[i]) > 0 /\ OrderRank(msgs[j]) > 0)
            => OrderRank(msgs[i]) <= OrderRank(msgs[j])

(***************************************************************************)
(* Properties of the visibility gate (checked under SpecVisibility).       *)
(***************************************************************************)
\* C15: insufficient visibility short-circuits.  Whenever the visibility
\* gate fails on a frame (the empty frame and the frame of visibility 0
\* included), detectPlankPosition returns isPlank = false, confidence 0
\* and exactly one feedback string, which is none of the strings of the
\* scoring checks and no affirmation: no check contributed.
C15_InsufficientVisibility ==
  (result # NoResult /\ ~areLandmarksVisible(frame, DefaultMinVisibility)) =>
     LET plankResult == result.plankResult
     IN /\ ~plankResult.threw
        /\ ~plankResult.isPlank
        /\ plankResult.confidence = 0
        /\ Len(plankResult.feedback) = 1
        /\ plankResult.feedback[1] \notin FormCorrections \cup Affirmations

\* a sagging body with all critical slots visible and only three optional
\* ones was answered with the generic visibility string
C15_Witness ==
  /\ result # NoResult
  /\ ~areLandmarksVisible(frame, DefaultMinVisibility)
  /\ \A idx \in criticalIndices : SlotVisible(frame, idx, DefaultMinVisibility)
  /\ Cardinality({idx \in optionalIndices :
                    SlotVisible(frame, idx, DefaultMinVisibility)}) = 3
  /\ result.plankResult.feedback = <<MsgCannotSeeEnough>>

\* C16: malformed frames degrade instead of raising.  detectPlankPosition
\* returns a result for every frame, and for a frame with a slot that
\* holds no landmark the result is isPlank = false with confidence 0.
C16_MalformedFramesDegrade ==
  result # NoResult =>
     /\ ~result.plankResult.threw
     /\ ((\E idx \in Slots : frame[idx] = Missing) =>
            ~result.plankResult.isPlank /\ result.plankResult.confidence = 0)

\* the slot holds a landmark whose visibility is at least minVisibility
AtLeast(landmarks, idx, minVisibility) ==
  landmarks[idx] # Missing /\ landmarks[idx].visibility >= minVisibility

\* shoulder, hip, knee and ankle of the left and of the right side
SideChains ==
  {{POSE_LANDMARKS.LEFT_SHOULDER, POSE_LANDMARKS.LEFT_HIP,
    POSE_LANDMARKS.LEFT_KNEE, POSE_LANDMARKS.LEFT_ANKLE},
   {POSE_LANDMARKS.RIGHT_SHOULDER, POSE_LANDMARKS.RIGHT_HIP,
    POSE_LANDMARKS.RIGHT_KNEE, POSE_LANDMARKS.RIGHT_ANKLE}}

\* C19: core subset of the visibility gate.  Whenever
\* areLandmarksVisible(frame, minVisibility) returns true, the nose and,
\* on at least one side of the body, all of shoulder, hip, knee and ankle
\* have a visibility of at least minVisibility.
C19_CoreSubset ==
  (result # NoResult /\ result.visible) =>
     /\ AtLeast(frame, POSE_LANDMARKS.NOSE, result.minVisibility)
     /\ \E chain \in SideChains :
           \A idx \in chain : AtLeast(frame, idx, result.minVisibility)

\* the slot counts as visible: it holds a landmark whose visibility is not
\* 0 and is at least minVisibility
Seen(landmarks, idx, minVisibility) ==
  /\ AtLeast(landmarks, idx, minVisibility)
  /\ landmarks[idx].visibility # 0

C21_MonotoneInThreshold ==
  result # NoResult =>
     \A t \in MinVisibilities :
        /\ (result.visible /\ t <= result.minVisibility
              => areLandmarksVisible(frame, t))
        /\ (~result.visible /\ t >= result.minVisibility
              => ~areLandmarksVisible(frame, t))

\* a frame passed the gate at the default threshold, as it does at the
\* lower ones, and fails it at a higher one
C21_Witness ==
  /\ result # NoResult
  /\ result.minVisibility = DefaultMinVisibility
  /\ result.visible
  /\ areLandmarksVisible(frame, 0)
  /\ ~areLandmarksVisible(frame, 31)

(***************************************************************************)
(* Properties of the recorder component (checked under SpecRecorder).      *)
(***************************************************************************)
\* a VideoRecorder is mounted in detection mode
DetectionSession == appState = "recording" /\ detectionMode

\* C24: in detection mode recording starts at once.  When onPlankDetected
\* is invoked while the phase is 'detecting' the next phase is 'recording',
\* and the phase 'countdown' is never entered in detection mode.
C24_RecordingStartsImmediately ==
  /\ [][(DetectionSession /\ phase = "detecting" /\ fired' = <<OnPlankDetected>>)
          => phase' = "recording"]_vars
  /\ [](DetectionSession => phase # "countdown")

\* the last step was the frame on which onPlankLost was invoked while the
\* phase was 'recording'
AutoStopped ==
  /\ DetectionSession
  /\ outcome \in ProcessedKinds
  /\ fired = <<OnPlankLost>>
  /\ phase = "recording"

\* a stop() awaited by stopRecording has just rejected
StopFailed == outcome \in {"stopRejected", "staleStopRejected"}

\* C25: auto-stop on loss.  When onPlankLost is invoked in detection mode
\* while the phase is 'recording', stop() of the referenced recorder is
\* called in that step, and unless a stop() rejects the phase becomes
\* 'preview' with the blob stored.
C25_AutoStopOnLoss ==
  /\ [][(DetectionSession /\ phase = "recording" /\ fired' = <<OnPlankLost>>)
          => /\ "stop" \in effects'
             /\ pendingStops' = pendingStops + 1]_vars
  /\ (AutoStopped ~> ((phase = "preview" /\ videoBlob # NoBlob) \/ StopFailed))

C25_Witness ==
  /\ DetectionSession
  /\ lastEvent = OnPlankLost
  /\ outcome = "stopResolved"
  /\ phase = "preview"
  /\ videoBlob # NoBlob

\* C26: the timer keeps running while the plank is held.  Within one
\* 'recording' phase in detection mode no step constructs a recorder or
\* sets the start time again, and the elapsed time shown does not decrease.
C26_TimerKeepsRunning ==
  [][(DetectionSession /\ phase = "recording" /\ appState' = "recording"
        /\ phase' = "recording")
       => /\ "newRecorder" \notin effects'
          /\ "setStartTime" \notin effects'
          /\ elapsedTime' >= elapsedTime]_vars

\* C27: Stop before recording.  A press of Stop in phase 'detecting' or
\* 'countdown' leaves no loop scheduled, resets the gate in detection mode
\* and shows the idle screen without a message; the component is gone, so
\* 'preview' and the completed screen are reached only after another Start.
C27_StopBeforeRecording ==
  [][/\ (outcome' = "stopBeforeRecording" =>
           /\ phase \in {"detecting", "countdown"}
           /\ ~animationFrameRef' /\ ~detectionFrameRef'
           /\ {"cancelRender", "cancelDetection"} \subseteq effects'
           /\ (detectionMode =>
                 /\ plankDetectedCountRef' = 0
                 /\ plankLostCountRef' = 0
                 /\ ~isPlankActiveRef'
                 /\ "resetPose" \in effects')
           /\ appState' = "idle"
           /\ ~MessageDisplayed'
           /\ phase' \notin {"preview", "completed"}
           /\ videoBlob' = NoBlob)
     /\ ((appState = "recording" /\ phase \in {"detecting", "countdown"}
            /\ appState' # "recording") =>
           outcome' \in {"stopBeforeRecording", "stopRejected", "staleStopRejected"})
     /\ (appState = "idle" =>
           /\ phase \notin {"preview", "completed"}
           /\ (appState' # "idle" => outcome' = "handleStart"))]_vars

C27_Witness ==
  /\ outcome = "stopBeforeRecording"
  /\ detectionMode
  /\ "resetPose" \in effects
  /\ appState = "idle"
  /\ lastEvent = "none"

\* the message a step reported through onError
Reported(what) ==
  CASE what = "cameraFailed" -> ErrCamera
    [] what \in {"stopRejected", "staleStopRejected"} -> ErrSaveVideo

ErrorReports == {"cameraFailed", "stopRejected", "staleStopRejected"}

\* C28: error recovery.  An error reported while appState is 'recording'
\* shows the idle screen with that message; Start then clears the message
\* and shows the recorder again.
C28_ErrorRecovery ==
  [][/\ ((appState = "recording" /\ outcome' \in ErrorReports) =>
           /\ appState' = "idle"
           /\ errorMessage' = Reported(outcome')
           /\ MessageDisplayed')
     /\ (outcome' = "handleStart" =>
           /\ appState = "idle"
           /\ appState' = "recording"
           /\ errorMessage' = NoMessage
           /\ phase' = "preparing")]_vars

\* a camera failure has brought back the idle screen with its message
C28_Witness ==
  /\ outcome = "cameraFailed"
  /\ appState = "idle"
  /\ errorMessage = ErrCamera
  /\ MessageDisplayed

\* C29: detectionMode changes only when the checkbox is toggled.
C29_DetectionModePreserved ==
  [][detectionMode' # detectionMode => outcome' = "toggleDetectionMode"]_vars

\* a recording in detection mode was completed and Record Another pressed
C29_Witness ==
  /\ outcome = "handleReset"
  /\ detectionMode
  /\ appState = "idle"

\* the step keeps the VideoRecorder mounted in detection mode
StaysInSession == DetectionSession /\ appState' = "recording"

C36_DetectingStartsFresh ==
  [][(appState' = "recording" /\ phase # "detecting" /\ phase' = "detecting") =>
       /\ outcome' \in {"cameraReady", "handleRecordAnother"}
       /\ (outcome' = "handleRecordAnother" => phase = "preview")
       /\ plankDetectedCountRef' = 0
       /\ plankLostCountRef' = 0
       /\ ~isPlankActiveRef']_vars

\* Record Another was pressed on the preview of a recording stopped by hand
\* while the gate was active: the gate is inactive again
C36_Witness ==
  /\ outcome = "handleRecordAnother"
  /\ phase = "detecting"
  /\ fresh.resetFromActive
  /\ CurrentGate = InitialGate
  /\ "resetPose" \in effects

\* type RecordingPhase
RecordingPhase ==
  {"preparing", "detecting", "countdown", "recording", "preview", "completed"}

\* the step ran the body of stopRecording
StopRecordingCalled == {"cancelRender", "cancelDetection"} \subseteq effects'

ManualSession == appState = "recording" /\ ~detectionMode

\* C38: the automatic stop at the target duration is for manual mode only.
\* In manual mode the recording is stopped by the first rendered frame
\* whose elapsed time has reached targetDuration, so that no recorder runs
\* on after it; in detection mode a rendered frame never stops the
\* recording, whatever the elapsed time, and stopRecording is called only
\* on the frame that invokes onPlankLost or by the Stop button.
C38_AutoStopManualOnly ==
  /\ []((ManualSession /\ phase = "recording" /\ recorderRef = "recording")
          => sinceStartTime < TargetDuration)
  /\ [][/\ ((ManualSession /\ outcome' = "second" /\ animationFrameRef) =>
              IF sinceStartTime' >= TargetDuration
              THEN /\ StopRecordingCalled
                   /\ "stop" \in effects'
                   /\ recorderRef' = "inactive"
                   /\ elapsedTime' = sinceStartTime'
              ELSE /\ effects' = {}
                   /\ recorderRef' = recorderRef)
        /\ ((DetectionSession /\ outcome' = "second") =>
              /\ effects' = {}
              /\ phase' = "recording"
              /\ recorderRef' = recorderRef
              /\ animationFrameRef' = animationFrameRef)
        /\ ((DetectionSession /\ phase = "recording" /\ appState' = "recording"
               /\ (StopRecordingCalled \/ "stop" \in effects')) =>
              \/ outcome' \in ProcessedKinds /\ fired' = <<OnPlankLost>>
              \/ outcome' = "stopRecording")
        /\ ((DetectionSession /\ phase = "recording" /\ appState' = "recording"
               /\ phase' # "recording") =>
              /\ outcome' = "stopResolved"
              /\ phase' = "preview")]_vars

\* a recording in detection mode has run past the target duration
C38_Witness ==
  /\ DetectionSession
  /\ outcome = "second"
  /\ phase = "recording"
  /\ recorderRef = "recording"
  /\ animationFrameRef
  /\ elapsedTime > TargetDuration

(***************************************************************************)
(* Properties of calculateAngle, checked under SpecAngle.                  *)
(***************************************************************************)
\* b lies on the segment from a to c and differs from both ends
StrictlyBetween(a, b, c) ==
  /\ a # b
  /\ c # b
  /\ (a.x - b.x) * (c.y - b.y) = (a.y - b.y) * (c.x - b.x)
  /\ (a.x - b.x) * (c.x - b.x) + (a.y - b.y) * (c.y - b.y) < 0

\* C33: calculateAngle(a, b, c) returns a value in [0, 180] for all points,
\* and returns 180 for three colinear points with b between a and c.
C33_AngleInRange ==
  result # NoResult =>
    /\ result.angle >= 0
    /\ result.angle <= 180 * Degree
    /\ StrictlyBetween(frame.a, frame.b, frame.c) => result.angle = 180 * Degree

\* a straight angle measured at a vertex strictly between the other two
\* points, on a diagonal of the grid
C33_Witness ==
  /\ result # NoResult
  /\ StrictlyBetween(frame.a, frame.b, frame.c)
  /\ frame.a.x # frame.b.x
  /\ frame.a.y # frame.b.y
  /\ result.angle = 180 * Degree

(***************************************************************************)
(* Properties of the class VideoRecorder, checked under SpecVideoRecorder. *)
(***************************************************************************)
\* the step is a start() that constructed a MediaRecorder
Started == Len(recorders') = Len(recorders) + 1

\* C39: start() begins a fresh recording.  It discards the chunks recorded
\* so far, and the blob a stop() resolves with consists of exactly the
\* non-empty chunks delivered by the MediaRecorder it stopped, in their
\* order of arrival: no empty chunk and no chunk of another recording,
\* stopped or not, is in it.
C39_FreshRecording ==
  /\ [][Started => (recordedChunks' = <<>> /\ mediaRecorder' = Len(recorders'))]_vars
  /\ [](\A p \in DOMAIN promises :
          promises[p].state = "resolved" =>
            promises[p].value = NonEmpty(recorders[promises[p].of].delivered))

\* the step is a call of stop()
Stopped == Len(promises') = Len(promises) + 1

\* C40: stop() without an active recording is an error value and not a
\* change of state.  On an instance whose start() was never called, stop()
\* returns a promise rejected with 'No active recording', leaves the
\* recorded chunks and the recorder state as they were (isRecording() is
\* false, getState() is 'inactive') and does not stop the tracks of the
\* stream.
C40_StopWithoutRecording ==
  [][(Stopped /\ stream = "null") =>
       /\ promises'[Len(promises')] = Promise(0, "rejected", ErrNoRecording)
       /\ UNCHANGED <<mediaRecorder, recordedChunks, stream, recorders, tracks>>
       /\ ~isRecording /\ ~isRecording'
       /\ getState = "inactive" /\ getState' = "inactive"]_vars

\* stop() was called twice on an instance never started, while the tracks
\* of the stream are live
C40_Witness ==
  /\ stream = "null"
  /\ Len(promises) = 2
  /\ \A p \in DOMAIN promises : promises[p] = Promise(0, "rejected", ErrNoRecording)
  /\ recordedChunks = <<>>
  /\ ~isRecording
  /\ getState = "inactive"
  /\ tracks = "live"

=============================================================================
